---- MODULE Spec2Model ----
(***************************************************************************)
(* A model of the dataset-preparation scripts of video_preprocessing:      *)
(*   - vid_folder_cut_frame.py : extract_frames, ProcessingStats,          *)
(*     process_folder / remove_frame / random_select_frames, and the       *)
(*     parallel combine_folders / copy_file;                               *)
(*   - merge_folder.py         : the sequential combine_folders;           *)
(*   - count_id_in_lbls.py     : count_class_ids;                          *)
(*   - shuffle_datasets.py     : shuffle_and_split_pairs;                  *)
(*   - random_select_imgandlbl.py : random_pick_images_and_labels.         *)
(* Each function is a specification of its own (SpecExtract, SpecSelect,   *)
(* SpecMerge, SpecCopy, SpecCount, SpecShuffle, SpecPick) over the         *)
(* variables of that function; the variables of the others stay at their   *)
(* idle values. SpecMain is the script vid_folder_cut_frame.py as a whole: *)
(* extract_frames, then with --random_select random_select_frames on the   *)
(* output folder it filled.                                                *)
(***************************************************************************)
EXTENDS Integers, Sequences, FiniteSets, Bags, TLC

VARIABLES
    \* ---- extract_frames (vid_folder_cut_frame.py) ----
    input_folder,       \* os.listdir(input_folder): the entries, in listing order
    n,                  \* the frame interval --n
    pc,                 \* position in extract_frames
    video_files,        \* the filtered list of line 113
    vidx,               \* index in video_files of the video of the for loop
    cap,                \* the open VideoCapture: [opened, len, reported]
    frame_count,
    saved_frame_count,
    total_frames,
    disk,               \* output tree: frame path -> <<video name, ordinal index>>
    dirs,               \* directories made under output_folder
    stats,              \* the global ProcessingStats object
    imwrite_log,        \* history: the cv2.imwrite calls, in order
    update_log,         \* history: the update_video_stats calls, in order
    \* ---- random_select_frames / process_folder (vid_folder_cut_frame.py) ----
    tree,               \* folder -> the set of files it holds
    keep_percentage,    \* --keep_percentage, an exact fraction [num, den]
    cpu_count,          \* multiprocessing.cpu_count()
    sel_pc,             \* position in random_select_frames / process_folder
    all_folders,        \* the list built by lines 221-224
    fidx,               \* index in all_folders of the folder of the for loop
    all_frames,         \* process_folder: the listed .jpg files
    folder_before,      \* history: what the folder held when it was listed
    frames_to_keep_set,
    remove_tasks,       \* the list of (frame, should_remove)
    next_task,          \* the next task the pool hands to a worker
    running,            \* the tasks in the hands of the pool's workers
    results,            \* task -> what remove_frame returned ("none" so far)
    total_stats,
    runs,               \* how many times random_select_frames was started
    failed_removals,    \* history: files of the folder whose os.remove failed
    fails,              \* history: how many os.remove calls failed so far
    ever_failed,        \* history: folders in which an os.remove failed
    tree0,              \* history: the tree before the first run
    last_return,        \* history: the latest process_folder call that returned
    \* ---- combine_folders (merge_folder.py) ----
    root_folder,        \* the subfolders, in listing order, each its listing
    output_folder,      \* the output folder: file name -> content
    mg_pc,              \* position in combine_folders
    sidx,               \* index of the subfolder of the outer loop
    images,             \* the .jpg files of that subfolder
    iidx,               \* index in images of the image of the inner loop
    dest_path,          \* the destination file name
    counter,
    output0,            \* history: the output folder before the run
    copy_log,           \* history: the shutil.copy calls, in order
    \* ---- combine_folders / copy_file (vid_folder_cut_frame.py) ----
    cp_root,            \* the subfolders, in listing order, each its listing
    cp_size,            \* subfolder -> the pieces its images are made of
    cp_output,          \* the output folder: file name -> list of pieces
    cp_cpu,             \* multiprocessing.cpu_count()
    cp_pc,              \* position in combine_folders
    copy_tasks,         \* the list of (src_path, dest_path)
    cp_next,            \* the next task the pool hands to a worker
    cp_workers,         \* the copy_file calls in the hands of the workers
    cp_output0,         \* history: the output folder before the run
    cp_log,             \* history: the destinations shutil.copy opened
    \* ---- count_class_ids (count_id_in_lbls.py) ----
    folder_path,        \* os.listdir(folder_path), in listing order
    ct_pc,              \* position in count_class_ids
    txt_files,          \* the filtered list of line 13
    tidx,               \* index in txt_files of the file of the for loop
    lines_read,         \* lines the open file has yielded so far
    class_counts,       \* the Counter: class id -> count
    cur_lines,          \* history: bag of the lines read from the open file
    ok_lines,           \* history: bag of the lines of files read to the end
    failed_lines,       \* history: bag of the lines read from files whose
                        \* reading then raised
    \* ---- shuffle_and_split_pairs (shuffle_datasets.py) ----
    pairs,              \* the list of pairs, each pair an identifier
    sh_pc,              \* position in shuffle_and_split_pairs
    total_pairs,
    total_batches,
    batch_i,            \* the i of the for loop of line 142
    batches,
    pairs0,             \* history: the list the function was called with
    \* ---- random_pick_images_and_labels (random_select_imgandlbl.py) ----
    images_folder,      \* the entries of the images folder
    labels_folder,      \* the entries of the labels folder
    ratio,              \* the ratio, an exact fraction [num, den]
    output_images_folder,   \* output/images: file name -> content
    output_labels_folder,   \* output/labels: file name -> content
    pk_pc,              \* position in random_pick_images_and_labels
    selected_files,
    pk_idx,             \* index in selected_files of the file of the loop
    copied_count,
    pk_images0,         \* history: output/images before the call
    pk_labels0,         \* history: output/labels before the call
    pk_log,             \* history: what the loop did with each file
    \* ---- __main__ (vid_folder_cut_frame.py) ----
    random_select       \* args.random_select

exVars == <<input_folder, n, pc, video_files, vidx, cap, frame_count,
            saved_frame_count, total_frames, disk, dirs, stats,
            imwrite_log, update_log>>

selVars == <<tree, keep_percentage, cpu_count, sel_pc, all_folders, fidx,
             all_frames, folder_before, frames_to_keep_set, remove_tasks, next_task, running,
             results, total_stats, runs, failed_removals, fails, ever_failed,
             tree0, last_return>>

mgVars == <<root_folder, output_folder, mg_pc, sidx, images, iidx, dest_path,
            counter, output0, copy_log>>

cpVars == <<cp_root, cp_size, cp_output, cp_cpu, cp_pc, copy_tasks, cp_next,
            cp_workers, cp_output0, cp_log>>

ctVars == <<folder_path, ct_pc, txt_files, tidx, lines_read, class_counts,
            cur_lines, ok_lines, failed_lines>>

shVars == <<pairs, sh_pc, total_pairs, total_batches, batch_i, batches,
            pairs0>>

pkVars == <<images_folder, labels_folder, ratio, output_images_folder,
            output_labels_folder, pk_pc, selected_files, pk_idx,
            copied_count, pk_images0, pk_labels0, pk_log>>

mainVars == <<random_select>>

\* the variables of extract_frames but the frame files
exKept == <<input_folder, n, pc, video_files, vidx, cap, frame_count,
            saved_frame_count, total_frames, dirs, stats, imwrite_log,
            update_log>>

vars == <<exVars, selVars, mgVars, cpVars, ctVars, shVars, pkVars, mainVars>>

\* what a step of one script leaves alone: the other scripts' variables
notEx == <<selVars, mgVars, cpVars, ctVars, shVars, pkVars, mainVars>>
notSel == <<exVars, mgVars, cpVars, ctVars, shVars, pkVars, mainVars>>
notMg == <<exVars, selVars, cpVars, ctVars, shVars, pkVars, mainVars>>
notCp == <<exVars, selVars, mgVars, ctVars, shVars, pkVars, mainVars>>
notCt == <<exVars, selVars, mgVars, cpVars, shVars, pkVars, mainVars>>
notSh == <<exVars, selVars, mgVars, cpVars, ctVars, pkVars, mainVars>>
notPk == <<exVars, selVars, mgVars, cpVars, ctVars, shVars, mainVars>>
\* what a deletion of random_select_frames leaves alone
notSelDisk == <<exKept, mgVars, cpVars, ctVars, shVars, pkVars, mainVars>>

----------------------------------------------------------------------------
(* Bounds of the model. *)
MaxEntries == 2     \* entries of the input directory
MaxLen == 4         \* frames a decoder yields
MaxN == 3           \* the interval n ranges over 1..MaxN
NumFolders == 2     \* folders of the tree random_select_frames walks
MaxFiles == 2       \* .jpg files a folder holds
MaxCpu == 3         \* cpu_count() ranges over 1..MaxCpu
MaxRuns == 2        \* times random_select_frames is run on the tree
MaxFailures == 1    \* os.remove calls that fail in one behaviour
NumSub == 2         \* subfolders of the root folder combine_folders reads
MaxImages == 2      \* .jpg files a subfolder holds
MaxPieces == 2      \* pieces in which shutil.copy writes a file
MaxTxt == 2         \* .txt files of the label folder
MaxLines == 2       \* lines a label file yields
MaxDistinct == 6    \* pairs of a list of distinct pairs
MaxBatches == 3     \* batches the longest list is split into
MaxPick == 2        \* base names of the images folder

----------------------------------------------------------------------------
(* Helpers. *)
Range(s) == {s[i] : i \in 1..Len(s)}

RECURSIVE SelectSeq2(_, _)
\* a list comprehension [x for x in s if Test(x)], Test given as a set
SelectSeq2(s, keep) ==
    IF s = <<>> THEN <<>>
    ELSE IF Head(s) \in keep THEN <<Head(s)>> \o SelectSeq2(Tail(s), keep)
         ELSE SelectSeq2(Tail(s), keep)

\* str.lower() on the extensions that occur in the model
Lower(ext) ==
    CASE ext = ".MP4" -> ".mp4"
      [] ext = ".AVI" -> ".avi"
      [] ext = ".JPG" -> ".jpg"
      [] ext = ".Jpg" -> ".jpg"
      [] ext = ".TXT" -> ".txt"
      [] OTHER -> ext

\* f'{k:05d}': the decimal digits of k, left-padded with zeros to width 5
Format05d(k) ==
    LET s == ToString(k) IN
    CASE Len(s) = 1 -> "0000" \o s
      [] Len(s) = 2 -> "000" \o s
      [] Len(s) = 3 -> "00" \o s
      [] Len(s) = 4 -> "0" \o s
      [] OTHER -> s

----------------------------------------------------------------------------
(* extract_frames and ProcessingStats. *)

VideoExts == {".mp4", ".avi", ".mov", ".mkv", ".dav"}

\* The file names the input directory may hold: [stem, ext].
EntryNames ==
    { [stem |-> "a", ext |-> ".mp4"], [stem |-> "a", ext |-> ".AVI"],
      [stem |-> "b", ext |-> ".mp4"], [stem |-> "a", ext |-> ".txt"] }

\* How far the container's reported frame count may be off the decoded one.
ReportDrift == {0, 1}

\* What the decoder does with a file: it fails to open it, or yields len
\* frames and reports len + drift as CAP_PROP_FRAME_COUNT.
Decodings ==
    { [opened |-> FALSE, len |-> 0, reported |-> 0] } \cup
    { [opened |-> TRUE, len |-> l, reported |-> l + d] :
        l \in 0..MaxLen, d \in ReportDrift }

Entries ==
    { [name |-> nm, dec |-> d] :
        nm \in {x \in EntryNames : Lower(x.ext) \in VideoExts}, d \in Decodings }
    \cup
    { [name |-> nm, dec |-> [opened |-> FALSE, len |-> 0, reported |-> 0]] :
        nm \in {x \in EntryNames : Lower(x.ext) \notin VideoExts} }

FileName(e) == e.name.stem \o e.name.ext

\* f.lower().endswith(('.mp4', '.avi', '.mov', '.mkv', '.dav'))
IsVideo(e) == Lower(e.name.ext) \in VideoExts

\* a plausible slip: the per-video folder named after the whole file name
C12Mut_VideoOutputFolder(e) == FileName(e)

\* os.path.splitext(video_name)[0], line 123: the folder under
\* output_folder that takes the frames of video e
VideoOutputFolder(e) == e.name.stem

\* a plausible slip: the frame's ordinal index in the file name
C9Mut_FrameFilename(e, saved) ==
    <<e.name.stem,
      e.name.stem \o "_frame_" \o Format05d(frame_count) \o ".jpg">>

\* os.path.join(video_output_folder, f'{stem}_frame_{saved:05d}.jpg')
FrameFilename(e, saved) ==
    <<VideoOutputFolder(e),
      e.name.stem \o "_frame_" \o Format05d(saved) \o ".jpg">>

\* the global stats object after ProcessingStats.__init__
NewStats ==
    [ total_videos |-> 0, processed_videos |-> 0, total_frames |-> 0,
      extracted_frames |-> 0, video_stats |-> <<>> ]

\* a plausible slip: the aggregate frame total assigned, not added to
C13Mut_UpdateVideoStats(st, video_name, total, extracted) ==
    [ st EXCEPT
        !.video_stats = Append(@, [video |-> video_name, frames |-> total,
                                   extracted |-> extracted]),
        !.total_frames = total,
        !.extracted_frames = @ + extracted,
        !.processed_videos = @ + 1 ]

\* ProcessingStats.update_video_stats; video_stats is kept as the list of
\* (key, entry) insertions and assignments, later ones overriding earlier.
UpdateVideoStats(st, video_name, total, extracted) ==
    [ st EXCEPT
        !.video_stats = Append(@, [video |-> video_name, frames |-> total,
                                   extracted |-> extracted]),
        !.total_frames = @ + total,
        !.extracted_frames = @ + extracted,
        !.processed_videos = @ + 1 ]

\* a plausible slip: the selection test off by one frame
C1Mut_SaveThisFrame(fc, interval) == (fc + 1) % interval = 0

\* the frame selection test of line 141
SaveThisFrame(fc, interval) == fc % interval = 0

\* a plausible slip: a capture that did not open ends the batch
C5Mut_NextVideoIndex(c, i, total) == IF c.opened THEN i + 1 ELSE total + 1

\* the for loop of line 119 goes on to the next video of the list, whatever
\* the capture c of video i did
NextVideoIndex(c, i, total) == i + 1

----------------------------------------------------------------------------
(* random_select_frames, process_folder and remove_frame. *)

\* The tree under output_folder: folder 1 is output_folder itself, folder i
\* is a subdirectory of folder i \div 2. Folders is a tree of NumFolders
\* folders in which each folder but the last holds one sub-folder.
Folders == { 2^(d - 1) : d \in 1..NumFolders }

Children(f) == {c \in DOMAIN tree : c > 1 /\ c \div 2 = f}

\* the orders in which a directory listing may give the entries S
RECURSIVE ListDir(_)
ListDir(S) ==
    IF S = {} THEN {<<>>}
    ELSE UNION { { <<x>> \o l : l \in ListDir(S \ {x}) } : x \in S }

\* the lists of folders lines 222-224 may append while os.walk goes down
\* from folder f: the sub-folders of f in the order of its listing, then
\* what the walk appends below each of them, in that order
RECURSIVE WalkDirs(_)
RECURSIVE WalkEach(_)
WalkEach(cs) ==
    IF cs = <<>> THEN {<<>>}
    ELSE { a \o b : a \in WalkDirs(Head(cs)), b \in WalkEach(Tail(cs)) }
WalkDirs(f) ==
    UNION { { cs \o below : below \in WalkEach(cs) } :
              cs \in ListDir(Children(f)) }

\* the files of a folder that holds F frames: frames 1..F, with .jpg and
\* .JPG extensions, and one file that is no frame
FolderFiles(F) ==
    { [id |-> i, ext |-> IF i % 2 = 1 THEN ".jpg" ELSE ".JPG"] : i \in 1..F }
    \cup { [id |-> 0, ext |-> ".txt"] }

\* a plausible slip: the extension test without lower()
C8Mut_JpgFiles(files) == {f \in files : f.ext = ".jpg"}

\* [f for f in os.listdir(folder_path) if f.lower().endswith('.jpg')]
JpgFiles(files) == {f \in files : Lower(f.ext) = ".jpg"}

\* the keep fractions the model runs with: 0, 0.5, 0.8, 1 and 1.5
KeepFractions ==
    { [num |-> 0, den |-> 1], [num |-> 1, den |-> 2], [num |-> 4, den |-> 5],
      [num |-> 1, den |-> 1], [num |-> 3, den |-> 2] }

\* a plausible slip: the number of frames to keep clamped to the folder
C16Mut_FramesToKeep(total, k) ==
    IF (total * k.num) \div k.den > total THEN total
    ELSE (total * k.num) \div k.den

\* a plausible slip: rounding the number of frames to keep up
C2Mut_FramesToKeep(total, k) == (total * k.num + k.den - 1) \div k.den

\* int(total_frames * keep_percentage), line 182
FramesToKeep(total, k) == (total * k.num) \div k.den

\* max(1, cpu_count() - 1), lines 103 and 196
NumProcesses(cpus) == IF cpus - 1 > 1 THEN cpus - 1 ELSE 1

Workers == 1..NumProcesses(cpu_count)

\* a plausible slip: a failed removal reported as done
C7Mut_RemoveFailed == "True"

\* what remove_frame returns when os.remove raises, line 169
RemoveFailed == "False"

\* a plausible slip: the membership test of line 192 inverted
C15Mut_RemoveTasks(frames, keepset) ==
    [ i \in 1..Len(frames) |->
        [frame |-> frames[i], should_remove |-> frames[i] \in keepset] ]

\* the list of (frame_path, should_remove) of lines 189-193
RECURSIVE RemoveTasks(_, _)
RemoveTasks(frames, keepset) ==
    IF frames = <<>> THEN <<>>
    ELSE <<[frame |-> Head(frames), should_remove |-> Head(frames) \notin keepset]>>
         \o RemoveTasks(Tail(frames), keepset)

\* sum(results), line 205
RECURSIVE SumResults(_, _)
SumResults(res, k) ==
    IF k = 0 THEN 0 ELSE (IF res[k] = "True" THEN 1 ELSE 0) + SumResults(res, k - 1)

NoTotals == [total_frames |-> 0, frames_kept |-> 0, frames_removed |-> 0]

\* lines 235-240: the caller adds a folder's result to the totals
AddTotals(ts, total, kept, removed) ==
    IF total > 0
    THEN [ total_frames |-> ts.total_frames + total,
           frames_kept |-> ts.frames_kept + kept,
           frames_removed |-> ts.frames_removed + removed ]
    ELSE ts

\* what a returned process_folder call leaves in the history: the folder,
\* the run it was made in, what the folder held before and holds after, the
\* listed frames, the sample, the failed removals and the returned triple
Returned(folder, run, before, frames, keepset, total, kept, rm, failed, left) ==
    [ folder |-> folder, run |-> run, before |-> before, listed |-> frames,
      keepset |-> keepset, total |-> total, kept |-> kept,
      removed |-> rm, failed |-> failed, left |-> left ]

NoReturn == Returned(0, 0, {}, {}, {}, 0, 0, 0, {}, {})

\* random_select_frames has not been called
SelNotCalled ==
    /\ tree = <<>> /\ sel_pc = "idle" /\ all_folders = <<>> /\ fidx = 0
    /\ all_frames = <<>> /\ folder_before = {}
    /\ frames_to_keep_set = {} /\ remove_tasks = <<>>
    /\ next_task = 0 /\ running = {} /\ results = <<>>
    /\ total_stats = NoTotals /\ runs = 0 /\ failed_removals = {}
    /\ fails = 0 /\ ever_failed = {} /\ tree0 = <<>> /\ last_return = NoReturn

SelIdle ==
    /\ SelNotCalled
    /\ keep_percentage = [num |-> 1, den |-> 1] /\ cpu_count = 1

SelInit ==
    /\ \E sizes \in [Folders -> 0..MaxFiles] :
         tree = [f \in Folders |-> FolderFiles(sizes[f])]
    /\ tree0 = tree
    /\ keep_percentage \in KeepFractions
    /\ cpu_count \in 1..MaxCpu
    /\ sel_pc = "start" /\ all_folders = <<>> /\ fidx = 0
    /\ all_frames = <<>> /\ folder_before = {}
    /\ frames_to_keep_set = {} /\ remove_tasks = <<>>
    /\ next_task = 0 /\ running = {} /\ results = <<>>
    /\ total_stats = NoTotals /\ runs = 1 /\ failed_removals = {}
    /\ fails = 0 /\ ever_failed = {} /\ last_return = NoReturn

\* lines 220-231: the folder list and the zeroed totals
WalkFolders ==
    /\ sel_pc = "start"
    /\ \E below \in WalkDirs(1) : all_folders' = <<1>> \o below
    /\ total_stats' = NoTotals
    /\ fidx' = 1
    /\ sel_pc' = "for"
    /\ UNCHANGED <<tree, keep_percentage, cpu_count, all_frames,
                   folder_before, frames_to_keep_set, remove_tasks, next_task,
                   running, results, runs, failed_removals, fails,
                   ever_failed, tree0, last_return>>
    /\ UNCHANGED notSel


\* lines 175-179: a folder without .jpg files returns (0, 0, 0)
ProcessEmptyFolder ==
    /\ sel_pc = "for" /\ fidx <= Len(all_folders)
    /\ JpgFiles(tree[all_folders[fidx]]) = {}
    /\ total_stats' = AddTotals(total_stats, 0, 0, 0)
    /\ last_return' = Returned(all_folders[fidx], runs,
                               tree[all_folders[fidx]], {}, {}, 0, 0, 0, {},
                               tree[all_folders[fidx]])
    /\ fidx' = fidx + 1
    /\ UNCHANGED <<tree, keep_percentage, cpu_count, sel_pc, all_folders,
                   all_frames, folder_before, frames_to_keep_set,
                   remove_tasks, next_task, running, results, runs,
                   failed_removals, fails, ever_failed, tree0>>
    /\ UNCHANGED notSel

\* lines 175-199: the listing, the sample, the tasks and the pool
SampleFrames ==
    /\ sel_pc = "for" /\ fidx <= Len(all_folders)
    /\ LET frames == JpgFiles(tree[all_folders[fidx]])
           keep == FramesToKeep(Cardinality(frames), keep_percentage)
       IN /\ frames # {}
          /\ keep <= Cardinality(frames)
          /\ \E listing \in ListDir(frames), S \in SUBSET frames :
               /\ Cardinality(S) = keep
               /\ all_frames' = listing
               /\ frames_to_keep_set' = S
               /\ remove_tasks' = RemoveTasks(listing, S)
          /\ folder_before' = tree[all_folders[fidx]]
          /\ results' = [t \in 1..Cardinality(frames) |-> "none"]
    /\ next_task' = 1
    /\ running' = {}
    /\ failed_removals' = {}
    /\ sel_pc' = "pool"
    /\ UNCHANGED <<tree, keep_percentage, cpu_count, all_folders, fidx,
                   total_stats, runs, fails, ever_failed, tree0, last_return>>
    /\ UNCHANGED notSel

\* line 185: random.sample raises ValueError when the sample is larger
\* than the population; nothing catches it
SampleRaises ==
    /\ sel_pc = "for" /\ fidx <= Len(all_folders)
    /\ LET frames == JpgFiles(tree[all_folders[fidx]]) IN
         /\ frames # {}
         /\ FramesToKeep(Cardinality(frames), keep_percentage)
               > Cardinality(frames)
    /\ sel_pc' = "raised"
    /\ UNCHANGED <<tree, keep_percentage, cpu_count, all_folders, fidx,
                   all_frames, folder_before, frames_to_keep_set,
                   remove_tasks, next_task, running, results, total_stats,
                   runs, failed_removals, fails, ever_failed, tree0,
                   last_return>>
    /\ UNCHANGED notSel

\* pool.imap: an idle worker is handed the next task of the list; the
\* pool has num_processes workers, each holding one task at a time
WorkerTakes ==
    /\ sel_pc = "pool" /\ next_task <= Len(remove_tasks)
    /\ Cardinality(running) < Cardinality(Workers)
    /\ running' = running \cup {next_task}
    /\ next_task' = next_task + 1
    /\ UNCHANGED <<tree, keep_percentage, cpu_count, sel_pc, all_folders,
                   fidx, all_frames, folder_before, frames_to_keep_set,
                   remove_tasks, results, total_stats, runs, failed_removals,
                   fails, ever_failed, tree0, last_return>>
    /\ UNCHANGED notSel

\* a plausible slip: the frame joined to the root folder of the walk
C11Mut_FramePath(folder, frame) == <<all_folders[1], frame>>

\* os.path.join(folder_path, frame), line 191: the folder and the entry
FramePath(folder, frame) == <<folder, frame>>

\* the sub-folders extract_frames made, in the order of the video list
RECURSIVE OutputDirs(_)
OutputDirs(videos) ==
    IF videos = <<>> THEN <<>>
    ELSE LET rest == OutputDirs(SubSeq(videos, 1, Len(videos) - 1))
             d == VideoOutputFolder(videos[Len(videos)])
         IN IF d \in Range(rest) THEN rest ELSE Append(rest, d)

\* the frame file that is entry id of sub-folder d: frame counter id - 1
FrameFile(d, id) == <<d, d \o "_frame_" \o Format05d(id - 1) \o ".jpg">>

\* the output folder as extract_frames left it: folder 1 is output_folder,
\* holding no file, and folder i + 1 is the i-th sub-folder with its frames
OutputTree ==
    LET ds == OutputDirs(video_files) IN
    [ f \in 1..(1 + Len(ds)) |->
        IF f = 1 THEN {}
        ELSE { [id |-> i, ext |-> ".jpg"] :
                 i \in { j \in 1..Cardinality(DOMAIN disk) :
                           FrameFile(ds[f - 1], j) \in DOMAIN disk } } ]

\* the frame files after os.remove of the entry at frame_path
DiskWithout(d, frame_path) ==
    LET ds == OutputDirs(video_files)
        p == IF frame_path[1] - 1 \in 1..Len(ds)
             THEN FrameFile(ds[frame_path[1] - 1], frame_path[2].id)
             ELSE <<"", "">>
    IN IF p \in DOMAIN d THEN [q \in DOMAIN d \ {p} |-> d[q]] ELSE d

\* remove_frame, lines 160-170, when os.remove succeeds or is not called
WorkerRemoves(t) ==
    /\ sel_pc = "pool" /\ t \in running
    /\ LET task == remove_tasks[t]
           frame_path == FramePath(all_folders[fidx], task.frame)
       IN IF task.should_remove
          THEN /\ frame_path[2] \in tree[frame_path[1]]
               /\ tree' = [tree EXCEPT ![frame_path[1]] = @ \ {frame_path[2]}]
               /\ disk' = DiskWithout(disk, frame_path)
               /\ results' = [results EXCEPT ![t] = "True"]
          ELSE /\ tree' = tree
               /\ disk' = disk
               /\ results' = [results EXCEPT ![t] = "False"]
    /\ running' = running \ {t}
    /\ UNCHANGED <<keep_percentage, cpu_count, sel_pc, all_folders, fidx,
                   all_frames, folder_before, frames_to_keep_set,
                   remove_tasks, next_task, total_stats, runs,
                   failed_removals, fails, ever_failed, tree0, last_return>>
    /\ UNCHANGED notSelDisk

\* remove_frame, lines 164-169, when os.remove raises
WorkerRemoveFails(t) ==
    /\ sel_pc = "pool" /\ t \in running
    /\ LET task == remove_tasks[t]
       IN /\ task.should_remove
          /\ fails < MaxFailures
          /\ results' = [results EXCEPT ![t] = RemoveFailed]
          /\ failed_removals' = failed_removals \cup {task.frame}
          /\ fails' = fails + 1
          /\ ever_failed' = ever_failed \cup {all_folders[fidx]}
    /\ running' = running \ {t}
    /\ UNCHANGED <<tree, keep_percentage, cpu_count, sel_pc, all_folders,
                   fidx, all_frames, folder_before, frames_to_keep_set,
                   remove_tasks, next_task, total_stats, runs, tree0,
                   last_return>>
    /\ UNCHANGED notSel

\* lines 200-207 and 235-240: every result is in, process_folder returns
\* (total_frames, frames_to_keep, removed_count) and the caller adds it up
FolderReturns ==
    /\ sel_pc = "pool"
    /\ \A t \in 1..Len(remove_tasks) : results[t] # "none"
    /\ LET total == Len(all_frames)
           kept == FramesToKeep(total, keep_percentage)
           removed == SumResults(results, Len(remove_tasks))
       IN /\ total_stats' = AddTotals(total_stats, total, kept, removed)
          /\ last_return' = Returned(all_folders[fidx], runs, folder_before,
                                     Range(all_frames), frames_to_keep_set,
                                     total, kept, removed, failed_removals,
                                     tree[all_folders[fidx]])
    /\ fidx' = fidx + 1
    /\ sel_pc' = "for"
    \* the pool is closed and the locals of the call are gone
    /\ all_frames' = <<>> /\ folder_before' = {}
    /\ frames_to_keep_set' = {} /\ remove_tasks' = <<>>
    /\ next_task' = 0 /\ running' = {} /\ results' = <<>>
    /\ failed_removals' = {}
    /\ UNCHANGED <<tree, keep_percentage, cpu_count, all_folders, runs,
                   fails, ever_failed, tree0>>
    /\ UNCHANGED notSel

\* lines 247-252: the for loop is exhausted, the overall summary is printed
SelectDone ==
    /\ sel_pc = "for" /\ fidx > Len(all_folders)
    /\ sel_pc' = "done"
    /\ UNCHANGED <<tree, keep_percentage, cpu_count, all_folders, fidx,
                   all_frames, folder_before, frames_to_keep_set,
                   remove_tasks, next_task, running, results, total_stats,
                   runs, failed_removals, fails, ever_failed, tree0,
                   last_return>>
    /\ UNCHANGED notSel

\* random_select_frames is called again on the same tree, same fraction
SelectAgain ==
    /\ sel_pc = "done" /\ runs < MaxRuns
    /\ pc = "idle"
    /\ runs' = runs + 1
    /\ sel_pc' = "start"
    /\ UNCHANGED <<tree, keep_percentage, cpu_count, all_folders, fidx,
                   all_frames, folder_before, frames_to_keep_set,
                   remove_tasks, next_task, running, results, total_stats,
                   failed_removals, fails, ever_failed, tree0, last_return>>
    /\ UNCHANGED notSel

SelNext ==
    \/ WalkFolders \/ ProcessEmptyFolder \/ SampleFrames \/ SampleRaises
    \/ WorkerTakes
    \/ \E t \in running : WorkerRemoves(t)
    \/ \E t \in running : WorkerRemoveFails(t)
    \/ FolderReturns \/ SelectDone \/ SelectAgain

\* One call of random_select_frames on a wider tree: output_folder and
\* NumFolders folders below it, so that folders have siblings and the walk
\* has more than one order.  An os.remove may fail, as in SelNext.  The pool
\* is the largest one: with fewer processes the same steps are taken with
\* fewer tasks running at once.  keep_percentage is 0, the default 0.8, 1
\* or 1.5; up to two frames 0.5 keeps as many as 0.8 does.
WideInit ==
    /\ \E sizes \in [1..(NumFolders + 1) -> 0..MaxFiles] :
         tree = [f \in 1..(NumFolders + 1) |-> FolderFiles(sizes[f])]
    /\ tree0 = tree
    /\ keep_percentage \in KeepFractions \ {[num |-> 1, den |-> 2]}
    /\ cpu_count = MaxCpu
    /\ sel_pc = "start" /\ all_folders = <<>> /\ fidx = 0
    /\ all_frames = <<>> /\ folder_before = {}
    /\ frames_to_keep_set = {} /\ remove_tasks = <<>>
    /\ next_task = 0 /\ running = {} /\ results = <<>>
    /\ total_stats = NoTotals /\ runs = 1 /\ failed_removals = {}
    /\ fails = 0 /\ ever_failed = {} /\ last_return = NoReturn

OneCallNext ==
    \/ WalkFolders \/ ProcessEmptyFolder \/ SampleFrames \/ SampleRaises
    \/ WorkerTakes
    \/ \E t \in running : WorkerRemoves(t)
    \/ \E t \in running : WorkerRemoveFails(t)
    \/ FolderReturns \/ SelectDone

----------------------------------------------------------------------------
(* combine_folders of merge_folder.py. *)

\* a file name: os.path.splitext gives (stem, ext); the name is stem + ext
Name(stem, ext) == [stem |-> stem, ext |-> ext]
Path(nm) == nm.stem \o nm.ext

\* the .jpg names the subfolders may hold, and the file every subfolder
\* holds that is no image
ImageNames == { Name("a", ".jpg"), Name("a_1", ".jpg"), Name("a", ".JPG") }
OtherFile == Name("notes", ".txt")

\* the files the output folder may hold before the run
OldNames == { Name("a", ".jpg"), Name("a_1", ".jpg") }

\* the lists of at most k distinct names of S
Listings(S, k) ==
    UNION { { l \in [1..m -> S] : \A i, j \in 1..m : i # j => l[i] # l[j] } :
              m \in 0..k }

\* the content of a file copied from subfolder s, and of a file that was
\* in the output folder before the run
SourceContent(s, nm) == <<"copy of", s, Path(nm)>>
OldContent(nm) == <<"old", 0, Path(nm)>>

\* file.lower().endswith(".jpg"), lines 18 and 96
IsJpg(nm) == Lower(nm.ext) = ".jpg"

\* os.path.exists(dest_path), line 26
PathExists(out, path) == path \in DOMAIN out

\* a plausible slip: the suffix counter starting at 0
C3Mut_Candidate(image, cnt) ==
    image.stem \o "_" \o ToString(cnt - 1) \o image.ext

\* f"{name}_{counter}{ext}", lines 27-28
Candidate(image, cnt) == image.stem \o "_" \o ToString(cnt) \o image.ext

MgIdle ==
    /\ root_folder = <<>> /\ output_folder = <<>> /\ mg_pc = "idle"
    /\ sidx = 0 /\ images = <<>> /\ iidx = 0 /\ dest_path = ""
    /\ counter = 0 /\ output0 = <<>> /\ copy_log = <<>>

MgInit ==
    /\ root_folder \in [1..NumSub -> Listings(ImageNames, MaxImages)]
    /\ \E old \in SUBSET OldNames :
         output_folder = [p \in {Path(nm) : nm \in old} |->
                            OldContent(CHOOSE nm \in old : Path(nm) = p)]
    /\ output0 = output_folder
    /\ mg_pc = "start" /\ sidx = 0 /\ images = <<>> /\ iidx = 0
    /\ dest_path = "" /\ counter = 0 /\ copy_log = <<>>

\* lines 9-13: the output folder exists, the subfolders are listed
ListSubfolders ==
    /\ mg_pc = "start"
    /\ sidx' = 1
    /\ mg_pc' = "subfolder"
    /\ UNCHANGED <<root_folder, output_folder, images, iidx, dest_path,
                   counter, output0, copy_log>>
    /\ UNCHANGED notMg

\* lines 16-18: the .jpg files of the next subfolder
ListImages ==
    /\ mg_pc = "subfolder" /\ sidx <= Len(root_folder)
    /\ images' = SelectSeq2(Append(root_folder[sidx], OtherFile),
                            {nm \in ImageNames \cup {OtherFile} : IsJpg(nm)})
    /\ iidx' = 1
    /\ mg_pc' = "image"
    /\ UNCHANGED <<root_folder, output_folder, sidx, dest_path, counter,
                   output0, copy_log>>
    /\ UNCHANGED notMg

\* lines 20-25: the next image, its destination, the counter
NextImage ==
    /\ mg_pc = "image" /\ iidx <= Len(images)
    /\ dest_path' = Path(images[iidx])
    /\ counter' = 1
    /\ mg_pc' = "while"
    /\ UNCHANGED <<root_folder, output_folder, sidx, images, iidx, output0,
                   copy_log>>
    /\ UNCHANGED notMg

\* lines 26-29: the destination exists, the next candidate name is tried
TryNextName ==
    /\ mg_pc = "while" /\ PathExists(output_folder, dest_path)
    /\ dest_path' = Candidate(images[iidx], counter)
    /\ counter' = counter + 1
    /\ UNCHANGED <<root_folder, output_folder, mg_pc, sidx, images, iidx,
                   output0, copy_log>>
    /\ UNCHANGED notMg

\* lines 26 and 32: the destination is free, the file is copied to it
CopyImage ==
    /\ mg_pc = "while" /\ ~PathExists(output_folder, dest_path)
    /\ output_folder' =
          (dest_path :> SourceContent(sidx, images[iidx])) @@ output_folder
    /\ copy_log' = Append(copy_log,
           [sub |-> sidx, image |-> images[iidx], dest |-> dest_path,
            before |-> DOMAIN output_folder])
    /\ iidx' = iidx + 1
    /\ mg_pc' = "image"
    /\ UNCHANGED <<root_folder, sidx, images, dest_path, counter, output0>>
    /\ UNCHANGED notMg

\* line 20: the images of the subfolder are exhausted
NextSubfolder ==
    /\ mg_pc = "image" /\ iidx > Len(images)
    /\ sidx' = sidx + 1
    /\ mg_pc' = "subfolder"
    /\ UNCHANGED <<root_folder, output_folder, images, iidx, dest_path,
                   counter, output0, copy_log>>
    /\ UNCHANGED notMg

\* line 16: the subfolders are exhausted, combine_folders returns
CombineDone ==
    /\ mg_pc = "subfolder" /\ sidx > Len(root_folder)
    /\ mg_pc' = "done"
    /\ UNCHANGED <<root_folder, output_folder, sidx, images, iidx, dest_path,
                   counter, output0, copy_log>>
    /\ UNCHANGED notMg

MgNext ==
    \/ ListSubfolders \/ ListImages \/ NextImage \/ TryNextName
    \/ CopyImage \/ NextSubfolder \/ CombineDone

----------------------------------------------------------------------------
(* The parallel combine_folders and copy_file of vid_folder_cut_frame.py. *)

\* the .jpg names the subfolders may hold, and the files the output folder
\* may hold before the run
CopyImageNames == { Name("a", ".jpg") }
CopyOldNames == { Name("a", ".jpg"), Name("a_1", ".jpg") }

\* lines 93-100: the (src_path, dest_path) pairs of the subfolders from sf on
RECURSIVE CopyTasks(_, _)
CopyTasks(root, sf) ==
    IF sf > Len(root) THEN <<>>
    ELSE LET imgs == SelectSeq2(Append(root[sf], OtherFile),
                                {nm \in CopyImageNames \cup {OtherFile} :
                                    IsJpg(nm)})
         IN [i \in 1..Len(imgs) |-> [sub |-> sf, image |-> imgs[i]]]
            \o CopyTasks(root, sf + 1)

\* a plausible slip: copy_file without the test of the destination
C10Mut_CopyPathExists(out, path) == FALSE

\* os.path.exists(dest_path), line 77
CopyPathExists(out, path) == path \in DOMAIN out

\* f"{name}_{counter}{ext}" of the source's base name, lines 78-79
CopyCandidate(image, cnt) ==
    image.stem \o "_" \o ToString(cnt) \o image.ext

\* a file of the parallel copy is the list of its pieces: shutil.copy
\* writes a source to the destination piece after piece, each at the
\* writer's own offset
SourcePiece(s, nm, k) == <<"copy of", s, Path(nm), k>>
SourceFile(s, nm) == [k \in 1..cp_size[s] |-> SourcePiece(s, nm, k)]
OldFile(nm) == << <<"old", 0, Path(nm), 1>> >>

\* the bytes of a file no writer has written yet, below a later write
Hole == <<"hole", 0, "", 0>>

\* the file after a write of piece at offset pos - 1
WritePiece(content, pos, piece) ==
    IF pos <= Len(content) THEN [content EXCEPT ![pos] = piece]
    ELSE content \o [i \in 1..(pos - Len(content) - 1) |-> Hole] \o <<piece>>

\* the worker processes of the pool, line 102
CpWorkers == 1..NumProcesses(cp_cpu)

CpIdle ==
    /\ cp_root = <<>> /\ cp_size = <<>> /\ cp_output = <<>>
    /\ cp_cpu = 1 /\ cp_pc = "idle"
    /\ copy_tasks = <<>> /\ cp_next = 0 /\ cp_workers = {}
    /\ cp_output0 = <<>> /\ cp_log = {}

CpInit ==
    /\ cp_root \in [1..NumSub -> Listings(CopyImageNames, MaxImages)]
    /\ cp_size \in [1..NumSub -> 1..MaxPieces]
    /\ \E old \in SUBSET CopyOldNames :
         cp_output = [p \in {Path(nm) : nm \in old} |->
                        OldFile(CHOOSE nm \in old : Path(nm) = p)]
    /\ cp_output0 = cp_output
    /\ cp_cpu \in 1..MaxCpu
    /\ cp_pc = "start" /\ copy_tasks = <<>> /\ cp_next = 0
    /\ cp_workers = {} /\ cp_log = {}

\* lines 86-104: the task list and the pool of max(1, cpu_count() - 1)
\* worker processes
PrepareCopyPool ==
    /\ cp_pc = "start"
    /\ copy_tasks' = CopyTasks(cp_root, 1)
    /\ cp_workers' = {}
    /\ cp_next' = 1
    /\ cp_pc' = "pool"
    /\ UNCHANGED <<cp_root, cp_size, cp_output, cp_cpu, cp_output0, cp_log>>
    /\ UNCHANGED notCp

\* pool.imap and lines 74-76: an idle worker is handed the next task and
\* enters copy_file
CopyTakes ==
    /\ cp_pc = "pool" /\ cp_next <= Len(copy_tasks)
    /\ Cardinality(cp_workers) < Cardinality(CpWorkers)
    /\ cp_workers' = cp_workers \cup
          {[task |-> cp_next, dest_path |-> Path(copy_tasks[cp_next].image),
            counter |-> 1, at |-> "while", written |-> 0]}
    /\ cp_next' = cp_next + 1
    /\ UNCHANGED <<cp_root, cp_size, cp_output, cp_cpu, cp_pc, copy_tasks,
                   cp_output0, cp_log>>
    /\ UNCHANGED notCp

\* lines 77-80: the destination exists, the next candidate name is tried
CopyTriesNextName(me) ==
    /\ cp_pc = "pool" /\ me \in cp_workers /\ me.at = "while"
    /\ CopyPathExists(cp_output, me.dest_path)
    /\ cp_workers' = (cp_workers \ {me}) \cup
          {[me EXCEPT
              !.dest_path = CopyCandidate(copy_tasks[me.task].image,
                                          me.counter),
              !.counter = me.counter + 1]}
    /\ UNCHANGED <<cp_root, cp_size, cp_output, cp_cpu, cp_pc, copy_tasks,
                   cp_next, cp_output0, cp_log>>
    /\ UNCHANGED notCp

\* line 77: the destination is seen to be free, the loop is left
CopySeesFree(me) ==
    /\ cp_pc = "pool" /\ me \in cp_workers /\ me.at = "while"
    /\ ~CopyPathExists(cp_output, me.dest_path)
    /\ cp_workers' = (cp_workers \ {me}) \cup {[me EXCEPT !.at = "copy"]}
    /\ UNCHANGED <<cp_root, cp_size, cp_output, cp_cpu, cp_pc, copy_tasks,
                   cp_next, cp_output0, cp_log>>
    /\ UNCHANGED notCp

\* line 82: shutil.copy opens the destination for writing, which creates
\* it, or empties it when it is there by now
CopyOpens(me) ==
    /\ cp_pc = "pool" /\ me \in cp_workers /\ me.at = "copy"
    /\ cp_output' = (me.dest_path :> <<>>) @@ cp_output
    /\ cp_log' = cp_log \cup
          {[task |-> me.task, dest |-> me.dest_path,
            existed |-> me.dest_path \in DOMAIN cp_output]}
    /\ cp_workers' = (cp_workers \ {me}) \cup {[me EXCEPT !.at = "write"]}
    /\ UNCHANGED <<cp_root, cp_size, cp_cpu, cp_pc, copy_tasks, cp_next,
                   cp_output0>>
    /\ UNCHANGED notCp

\* line 82: shutil.copy writes the next piece of the source at its offset
\* in the destination; after the last piece copy_file returns
CopyWrites(me) ==
    /\ cp_pc = "pool" /\ me \in cp_workers /\ me.at = "write"
    /\ LET task == copy_tasks[me.task]
           pos == me.written + 1
       IN /\ cp_output' = [cp_output EXCEPT ![me.dest_path] =
                 WritePiece(@, pos, SourcePiece(task.sub, task.image, pos))]
          /\ cp_workers' = IF pos = cp_size[task.sub] THEN cp_workers \ {me}
                           ELSE (cp_workers \ {me}) \cup
                                   {[me EXCEPT !.written = pos]}
    /\ UNCHANGED <<cp_root, cp_size, cp_cpu, cp_pc, copy_tasks, cp_next,
                   cp_output0, cp_log>>
    /\ UNCHANGED notCp

\* line 105: every task has returned, the pool is closed
CopyPoolDone ==
    /\ cp_pc = "pool" /\ cp_next > Len(copy_tasks)
    /\ cp_workers = {}
    /\ cp_pc' = "done"
    /\ UNCHANGED <<cp_root, cp_size, cp_output, cp_cpu, copy_tasks, cp_next,
                   cp_workers, cp_output0, cp_log>>
    /\ UNCHANGED notCp

CpNext ==
    \/ PrepareCopyPool
    \/ CopyTakes
    \/ \E me \in cp_workers : CopyTriesNextName(me)
    \/ \E me \in cp_workers : CopySeesFree(me)
    \/ \E me \in cp_workers : CopyOpens(me)
    \/ \E me \in cp_workers : CopyWrites(me)
    \/ CopyPoolDone

----------------------------------------------------------------------------
(* count_class_ids of count_id_in_lbls.py. *)

\* The lines a label file may yield, each a list of characters:
\* " ", " 1 2", "12 1", "1\t2" and "x".
LinePool ==
    { <<" ">>, <<" ", "1", " ", "2">>, <<"1", "2", " ", "1">>,
      <<"1", "\t", "2">>, <<"x">> }

Whitespace == {" ", "\t", "\n"}

\* str.split() with no argument: the maximal runs of non-whitespace
\* characters, in order; tok is the run being read
RECURSIVE SplitFrom(_, _)
SplitFrom(line, tok) ==
    IF line = <<>> THEN (IF tok = "" THEN <<>> ELSE <<tok>>)
    ELSE IF Head(line) \in Whitespace
         THEN (IF tok = "" THEN <<>> ELSE <<tok>>) \o SplitFrom(Tail(line), "")
         ELSE SplitFrom(Tail(line), tok \o Head(line))

Split(line) == SplitFrom(line, "")

\* a plausible slip: the blank-line test left out, the count going to ""
C4Mut_CountLine(counts, line) ==
    LET columns == Split(line)
        class_id == IF columns = <<>> THEN "" ELSE columns[1]
    IN IF class_id \in DOMAIN counts
       THEN [counts EXCEPT ![class_id] = @ + 1]
       ELSE (class_id :> 1) @@ counts

\* lines 25-29: the effect of one line on the Counter
CountLine(counts, line) ==
    LET columns == Split(line) IN
    IF columns # <<>>
    THEN LET class_id == columns[1] IN
         IF class_id \in DOMAIN counts
         THEN [counts EXCEPT ![class_id] = @ + 1]
         ELSE (class_id :> 1) @@ counts
    ELSE counts

\* the names of the label folder: .txt files 1..k, one .TXT file and one
\* image
LabelFolder(k) ==
    [i \in 1..k |-> Name(ToString(i), ".txt")]
    \o << Name("upper", ".TXT"), Name("img", ".jpg") >>

\* f.endswith(".txt"), line 13
IsTxt(nm) == nm.ext = ".txt"

\* whether int(class_id) of line 35 succeeds
IsIntLiteral(id) == id \in {"0", "1", "2", "3", "12"}

CtIdle ==
    /\ folder_path = <<>> /\ ct_pc = "idle" /\ txt_files = <<>> /\ tidx = 0
    /\ lines_read = 0 /\ class_counts = <<>> /\ cur_lines = EmptyBag
    /\ ok_lines = EmptyBag /\ failed_lines = EmptyBag

CtInit ==
    /\ \E k \in 0..MaxTxt : folder_path = LabelFolder(k)
    /\ ct_pc = "start" /\ txt_files = <<>> /\ tidx = 0
    /\ lines_read = 0 /\ class_counts = <<>> /\ cur_lines = EmptyBag
    /\ ok_lines = EmptyBag /\ failed_lines = EmptyBag

\* lines 12-13: the empty Counter and the list of .txt files
ListTxtFiles ==
    /\ ct_pc = "start"
    /\ txt_files' = SelectSeq(folder_path, IsTxt)
    /\ class_counts' = <<>>
    /\ tidx' = 1
    /\ ct_pc' = "check"
    /\ UNCHANGED <<folder_path, lines_read, cur_lines, ok_lines, failed_lines>>
    /\ UNCHANGED notCt

\* lines 15-17: no .txt file, the function returns
NoTxtFiles ==
    /\ ct_pc = "check" /\ txt_files = <<>>
    /\ ct_pc' = "returned"
    /\ UNCHANGED <<folder_path, txt_files, tidx, lines_read, class_counts,
                   cur_lines, ok_lines, failed_lines>>
    /\ UNCHANGED notCt

\* line 20: there are .txt files, the for loop is entered
EnterLoop ==
    /\ ct_pc = "check" /\ txt_files # <<>>
    /\ ct_pc' = "for"
    /\ UNCHANGED <<folder_path, txt_files, tidx, lines_read, class_counts,
                   cur_lines, ok_lines, failed_lines>>
    /\ UNCHANGED notCt

\* lines 21-23: the next file is opened
OpenTxt ==
    /\ ct_pc = "for" /\ tidx <= Len(txt_files)
    /\ lines_read' = 0
    /\ cur_lines' = EmptyBag
    /\ ct_pc' = "reading"
    /\ UNCHANGED <<folder_path, txt_files, tidx, class_counts, ok_lines,
                   failed_lines>>
    /\ UNCHANGED notCt

\* lines 23 and 30-31: open() raises, the error is printed, the loop goes on
OpenTxtRaises ==
    /\ ct_pc = "for" /\ tidx <= Len(txt_files)
    /\ tidx' = tidx + 1
    /\ UNCHANGED <<folder_path, ct_pc, txt_files, lines_read, class_counts,
                   cur_lines, ok_lines, failed_lines>>
    /\ UNCHANGED notCt

\* lines 24-29: the file yields one more line
ReadLine ==
    /\ ct_pc = "reading" /\ lines_read < MaxLines
    /\ \E line \in LinePool :
         /\ class_counts' = CountLine(class_counts, line)
         /\ cur_lines' = cur_lines (+) SetToBag({line})
    /\ lines_read' = lines_read + 1
    /\ UNCHANGED <<folder_path, ct_pc, txt_files, tidx, ok_lines, failed_lines>>
    /\ UNCHANGED notCt

\* line 24: the file is exhausted and closed
EndOfTxt ==
    /\ ct_pc = "reading"
    /\ ok_lines' = ok_lines (+) cur_lines
    /\ cur_lines' = EmptyBag
    /\ tidx' = tidx + 1
    /\ ct_pc' = "for"
    /\ UNCHANGED <<folder_path, txt_files, lines_read, class_counts,
                   failed_lines>>
    /\ UNCHANGED notCt

\* lines 24 and 30-31: reading the next chunk of the file raises (a byte
\* sequence that does not decode, an I/O error); the lines counted so far
\* stay counted, the error is printed, the loop goes on
ReadRaises ==
    /\ ct_pc = "reading"
    /\ failed_lines' = failed_lines (+) cur_lines
    /\ cur_lines' = EmptyBag
    /\ tidx' = tidx + 1
    /\ ct_pc' = "for"
    /\ UNCHANGED <<folder_path, txt_files, lines_read, class_counts, ok_lines>>
    /\ UNCHANGED notCt

\* lines 34-36: the table is printed, sorted by int(class id)
PrintCounts ==
    /\ ct_pc = "for" /\ tidx > Len(txt_files)
    /\ \A id \in DOMAIN class_counts : IsIntLiteral(id)
    /\ ct_pc' = "printed"
    /\ UNCHANGED <<folder_path, txt_files, tidx, lines_read, class_counts,
                   cur_lines, ok_lines, failed_lines>>
    /\ UNCHANGED notCt

\* line 35: int() of a class id that is no integer literal raises ValueError
PrintRaises ==
    /\ ct_pc = "for" /\ tidx > Len(txt_files)
    /\ \E id \in DOMAIN class_counts : ~IsIntLiteral(id)
    /\ ct_pc' = "raised"
    /\ UNCHANGED <<folder_path, txt_files, tidx, lines_read, class_counts,
                   cur_lines, ok_lines, failed_lines>>
    /\ UNCHANGED notCt

CtNext ==
    \/ ListTxtFiles \/ NoTxtFiles \/ EnterLoop \/ OpenTxt \/ OpenTxtRaises
    \/ ReadLine \/ EndOfTxt \/ ReadRaises \/ PrintCounts \/ PrintRaises

----------------------------------------------------------------------------
(* extract_frames: initial states and steps. *)

ExIdle ==
    /\ input_folder = <<>> /\ n = 1 /\ pc = "idle" /\ video_files = <<>>
    /\ vidx = 0 /\ cap = [opened |-> FALSE, len |-> 0, reported |-> 0]
    /\ frame_count = 0 /\ saved_frame_count = 0 /\ total_frames = 0
    /\ disk = <<>> /\ dirs = {} /\ stats = NewStats
    /\ imwrite_log = <<>> /\ update_log = <<>>

ExInit ==
    /\ \E k \in 0..MaxEntries :
         input_folder \in { s \in [1..k -> Entries] :
                              \A i, j \in 1..k : i # j => s[i].name # s[j].name }
    /\ n \in 1..MaxN
    /\ pc = "start" /\ video_files = <<>> /\ vidx = 0
    /\ cap = [opened |-> FALSE, len |-> 0, reported |-> 0]
    /\ frame_count = 0 /\ saved_frame_count = 0 /\ total_frames = 0
    /\ disk = <<>> /\ dirs = {} /\ stats = NewStats
    /\ imwrite_log = <<>> /\ update_log = <<>>

\* lines 108-116: make the output folder, list the videos, set total_videos
ScanFolder ==
    /\ pc = "start"
    /\ video_files' = SelectSeq2(input_folder, {e \in Entries : IsVideo(e)})
    /\ stats' = [stats EXCEPT !.total_videos = Len(video_files')]
    /\ vidx' = 1
    /\ pc' = "for"
    /\ UNCHANGED <<input_folder, n, cap, frame_count, saved_frame_count,
                   total_frames, disk, dirs, imwrite_log, update_log>>
    /\ UNCHANGED notEx

\* lines 119-131: the per-video folder, the capture and the counters
OpenVideo ==
    /\ pc = "for" /\ vidx <= Len(video_files)
    /\ LET e == video_files[vidx] IN
         /\ dirs' = dirs \cup {VideoOutputFolder(e)}
         /\ cap' = e.dec
         /\ total_frames' = e.dec.reported
    /\ frame_count' = 0
    /\ saved_frame_count' = 0
    /\ pc' = "while"
    /\ UNCHANGED <<input_folder, n, video_files, vidx, disk, stats,
                   imwrite_log, update_log>>
    /\ UNCHANGED notEx

\* lines 135-149: one iteration of the read loop that gets a frame
ReadFrame ==
    /\ pc = "while" /\ cap.opened /\ frame_count < cap.len
    /\ LET e == video_files[vidx]
           path == FrameFilename(e, saved_frame_count)
       IN IF SaveThisFrame(frame_count, n)
          THEN /\ disk' = (path :> <<FileName(e), frame_count>>) @@ disk
               /\ imwrite_log' = Append(imwrite_log,
                      [video |-> FileName(e), stem |-> e.name.stem,
                       index |-> frame_count, path |-> path])
               /\ saved_frame_count' = saved_frame_count + 1
          ELSE UNCHANGED <<disk, imwrite_log, saved_frame_count>>
    /\ frame_count' = frame_count + 1
    /\ UNCHANGED <<input_folder, n, pc, video_files, vidx, cap, total_frames,
                   dirs, stats, update_log>>
    /\ UNCHANGED notEx

\* lines 135-138 and 151-154: the loop ends (the capture is not open, or
\* read() returns no frame), the capture is released, the video is recorded
EndVideo ==
    /\ pc = "while" /\ (~cap.opened \/ frame_count = cap.len)
    /\ LET e == video_files[vidx] IN
         /\ stats' = UpdateVideoStats(stats, FileName(e), total_frames,
                                      saved_frame_count)
         /\ update_log' = Append(update_log,
                [video |-> FileName(e), frames |-> total_frames,
                 extracted |-> saved_frame_count])
    /\ cap' = [opened |-> FALSE, len |-> 0, reported |-> 0]
    /\ vidx' = NextVideoIndex(cap, vidx, Len(video_files))
    /\ pc' = "for"
    /\ UNCHANGED <<input_folder, n, video_files, frame_count,
                   saved_frame_count, total_frames, disk, dirs, imwrite_log>>
    /\ UNCHANGED notEx

\* lines 156-158: the for loop is exhausted, the summary is printed
PrintSummary ==
    /\ pc = "for" /\ vidx > Len(video_files)
    /\ pc' = "done"
    /\ UNCHANGED <<input_folder, n, video_files, vidx, cap, frame_count,
                   saved_frame_count, total_frames, disk, dirs, stats,
                   imwrite_log, update_log>>
    /\ UNCHANGED notEx

ExNext == ScanFolder \/ OpenVideo \/ ReadFrame \/ EndVideo \/ PrintSummary

----------------------------------------------------------------------------
(* shuffle_and_split_pairs of shuffle_datasets.py. *)

BATCH_SIZE == 500

\* the list a with x put in at any one place
Insertions(x, a) ==
    { SubSeq(a, 1, k) \o <<x>> \o SubSeq(a, k + 1, Len(a)) : k \in 0..Len(a) }

\* random.shuffle(pairs), line 137: the list in any order, that is every
\* list that holds the elements of s as many times as s does. A list of
\* equal elements has one order; any other list has the orders of the
\* list less one element x, with x put in at every place (x is taken
\* among the elements the list holds least often).
RECURSIVE Shuffles(_)
Shuffles(s) ==
    IF Cardinality(Range(s)) <= 1 THEN {s}
    ELSE LET Count(v) == Cardinality({i \in 1..Len(s) : s[i] = v})
             x == CHOOSE v \in Range(s) :
                     \A w \in Range(s) : Count(v) <= Count(w)
             k == CHOOSE i \in 1..Len(s) : s[i] = x
             rest == SubSeq(s, 1, k - 1) \o SubSeq(s, k + 1, Len(s))
         IN UNION { Insertions(x, a) : a \in Shuffles(rest) }

\* a plausible slip: the number of batches rounded down
C14Mut_TotalBatches(total) == total \div BATCH_SIZE

\* math.ceil(total_pairs / BATCH_SIZE), line 139
TotalBatches(total) ==
    IF total % BATCH_SIZE = 0 THEN total \div BATCH_SIZE
    ELSE total \div BATCH_SIZE + 1

\* start_index = i * BATCH_SIZE, line 143
StartIndex(i) == i * BATCH_SIZE

\* end_index = min(start_index + BATCH_SIZE, total_pairs), line 144
EndIndex(start, total) ==
    IF start + BATCH_SIZE < total THEN start + BATCH_SIZE ELSE total

\* the slice s[start:end] of a list, positions counted from 0
Slice(s, start, end) ==
    LET hi == IF end < Len(s) THEN end ELSE Len(s)
    IN IF start >= hi THEN <<>> ELSE SubSeq(s, start + 1, hi)

ShIdle ==
    /\ pairs = <<>> /\ sh_pc = "idle" /\ total_pairs = 0 /\ total_batches = 0
    /\ batch_i = 0 /\ batches = <<>> /\ pairs0 = <<>>

\* The lists the function is called with. A list of up to MaxDistinct
\* pairs holds distinct pairs. A longer list holds one pair followed by
\* copies of another pair, so that its orders can be listed (one for each
\* place of the first pair); its length is a multiple of BATCH_SIZE, or
\* one pair less or more.
PairCounts ==
    0..MaxDistinct
    \cup { b * BATCH_SIZE + e : b \in 1..(MaxBatches - 1), e \in {-1, 0, 1} }

InputPairs(P) ==
    IF P <= MaxDistinct THEN [i \in 1..P |-> i]
    ELSE [i \in 1..P |-> IF i = 1 THEN 1 ELSE 2]

ShInit ==
    /\ \E P \in PairCounts : pairs = InputPairs(P)
    /\ pairs0 = pairs
    /\ sh_pc = "start" /\ total_pairs = 0 /\ total_batches = 0
    /\ batch_i = 0 /\ batches = <<>>

\* lines 137-140: the shuffle in place, the length, the number of batches
ShufflePairs ==
    /\ sh_pc = "start"
    /\ pairs' \in Shuffles(pairs)
    /\ total_pairs' = Len(pairs)
    /\ total_batches' = TotalBatches(Len(pairs))
    /\ batches' = <<>>
    /\ batch_i' = 0
    /\ sh_pc' = "for"
    /\ UNCHANGED pairs0
    /\ UNCHANGED notSh

\* lines 142-147: one iteration of the for loop appends a batch
MakeBatch ==
    /\ sh_pc = "for" /\ batch_i < total_batches
    /\ LET start_index == StartIndex(batch_i)
           end_index == EndIndex(start_index, total_pairs)
       IN batches' = Append(batches, Slice(pairs, start_index, end_index))
    /\ batch_i' = batch_i + 1
    /\ UNCHANGED <<pairs, sh_pc, total_pairs, total_batches, pairs0>>
    /\ UNCHANGED notSh

\* lines 149-150: the loop is exhausted, the batches are returned
ReturnBatches ==
    /\ sh_pc = "for" /\ batch_i >= total_batches
    /\ sh_pc' = "done"
    /\ UNCHANGED <<pairs, total_pairs, total_batches, batch_i, batches,
                   pairs0>>
    /\ UNCHANGED notSh

ShNext == ShufflePairs \/ MakeBatch \/ ReturnBatches

----------------------------------------------------------------------------
(* random_pick_images_and_labels of random_select_imgandlbl.py. *)

\* the entries the images folder may hold: <i>.jpg for every base name i,
\* and 1.JPG and 1.png next to 1.jpg
PickImageNames ==
    { Name(ToString(i), ".jpg") : i \in 1..MaxPick }
    \cup { Name("1", ".JPG"), Name("1", ".png") }

\* the entries the labels folder may hold
PickLabelNames == { Name(ToString(i), ".txt") : i \in 1..MaxPick }

\* the ratios the model runs with: 0, 0.5, 0.8 and 1
PickRatios ==
    { [num |-> 0, den |-> 1], [num |-> 1, den |-> 2], [num |-> 4, den |-> 5],
      [num |-> 1, den |-> 1] }

\* what output/images and output/labels may hold before the call: nothing,
\* or an image 1.jpg of an earlier call without a label
OldOutputs ==
    { [images |-> <<>>, labels |-> <<>>],
      [images |-> ("1.jpg" :> <<"old", "1.jpg">>), labels |-> <<>>] }

\* [f for f in os.listdir(images_folder) if f.lower().endswith(".jpg")]
PickJpgFiles(files) == {f \in files : Lower(f.ext) = ".jpg"}

\* a plausible slip: the number of files to pick rounded up
C17Mut_NumToPick(total, r) == (total * r.num + r.den - 1) \div r.den

\* int(total_files * ratio), line 20
NumToPick(total, r) == (total * r.num) \div r.den

\* random.shuffle(image_files), line 21: the orders the list may come in
ShuffledLists(S) ==
    { s \in [1..Cardinality(S) -> S] :
        \A i, j \in 1..Cardinality(S) : i # j => s[i] # s[j] }

\* image_files[:num_to_pick], line 22
FirstFiles(s, k) == Slice(s, 0, k)

\* os.path.splitext(file)[0] + ".txt", lines 28 and 33
LabelOf(file) == Name(file.stem, ".txt")

\* os.path.exists(image_src) and os.path.exists(label_src), line 31
BothExist(file, imgs, lbls) == file \in imgs /\ LabelOf(file) \in lbls

PkIdle ==
    /\ images_folder = {} /\ labels_folder = {}
    /\ ratio = [num |-> 1, den |-> 1]
    /\ output_images_folder = <<>> /\ output_labels_folder = <<>>
    /\ pk_pc = "idle" /\ selected_files = <<>> /\ pk_idx = 0
    /\ copied_count = 0 /\ pk_images0 = <<>> /\ pk_labels0 = <<>>
    /\ pk_log = <<>>

PkInit ==
    /\ images_folder \in SUBSET PickImageNames
    /\ labels_folder \in SUBSET PickLabelNames
    /\ ratio \in PickRatios
    /\ \E old \in OldOutputs :
         /\ output_images_folder = old.images
         /\ output_labels_folder = old.labels
    /\ pk_images0 = output_images_folder
    /\ pk_labels0 = output_labels_folder
    /\ pk_pc = "start" /\ selected_files = <<>> /\ pk_idx = 0
    /\ copied_count = 0 /\ pk_log = <<>>

\* lines 10-25: the output folders, the listing, the shuffle, the selection
SelectFiles ==
    /\ pk_pc = "start"
    /\ LET image_files == PickJpgFiles(images_folder)
           total_files == Cardinality(image_files)
           num_to_pick == NumToPick(total_files, ratio)
       IN \E s \in ShuffledLists(image_files) :
             selected_files' = FirstFiles(s, num_to_pick)
    /\ copied_count' = 0
    /\ pk_idx' = 1
    /\ pk_pc' = "for"
    /\ UNCHANGED <<images_folder, labels_folder, ratio, output_images_folder,
                   output_labels_folder, pk_images0, pk_labels0, pk_log>>
    /\ UNCHANGED notPk

\* lines 26-34: the image and its label both exist and are both copied
CopyPair ==
    /\ pk_pc = "for" /\ pk_idx <= Len(selected_files)
    /\ LET file == selected_files[pk_idx] IN
         /\ BothExist(file, images_folder, labels_folder)
         /\ output_images_folder' =
              (Path(file) :> <<"copy of", Path(file)>>) @@ output_images_folder
         /\ output_labels_folder' =
              (Path(LabelOf(file)) :> <<"copy of", Path(LabelOf(file))>>)
                 @@ output_labels_folder
         /\ pk_log' = Append(pk_log, [file |-> file, copied |-> TRUE])
    /\ copied_count' = copied_count + 1
    /\ pk_idx' = pk_idx + 1
    /\ UNCHANGED <<images_folder, labels_folder, ratio, pk_pc,
                   selected_files, pk_images0, pk_labels0>>
    /\ UNCHANGED notPk

\* lines 26-31: the label is missing, the file is passed over
SkipFile ==
    /\ pk_pc = "for" /\ pk_idx <= Len(selected_files)
    /\ LET file == selected_files[pk_idx] IN
         /\ ~BothExist(file, images_folder, labels_folder)
         /\ pk_log' = Append(pk_log, [file |-> file, copied |-> FALSE])
    /\ pk_idx' = pk_idx + 1
    /\ UNCHANGED <<images_folder, labels_folder, ratio, output_images_folder,
                   output_labels_folder, pk_pc, selected_files, copied_count,
                   pk_images0, pk_labels0>>
    /\ UNCHANGED notPk

\* line 36: the loop is exhausted, copied_count is returned
ReturnCount ==
    /\ pk_pc = "for" /\ pk_idx > Len(selected_files)
    /\ pk_pc' = "done"
    /\ UNCHANGED <<images_folder, labels_folder, ratio, output_images_folder,
                   output_labels_folder, selected_files, pk_idx, copied_count,
                   pk_images0, pk_labels0, pk_log>>
    /\ UNCHANGED notPk

PkNext == SelectFiles \/ CopyPair \/ SkipFile \/ ReturnCount

----------------------------------------------------------------------------
(* __main__ of vid_folder_cut_frame.py. *)

\* a function of the script is called by itself, not from __main__
MainIdle == random_select = FALSE

\* lines 264-267: the arguments are parsed and extract_frames is called
MainInit ==
    /\ ExInit
    /\ random_select \in BOOLEAN
    /\ keep_percentage \in KeepFractions
    /\ cpu_count \in 1..MaxCpu
    /\ SelNotCalled
    /\ MgIdle /\ CpIdle /\ CtIdle /\ ShIdle /\ PkIdle

\* lines 270-271: with --random_select, random_select_frames is called on
\* the output folder extract_frames has just filled
StartSelection ==
    /\ pc = "done" /\ random_select /\ sel_pc = "idle"
    /\ tree' = OutputTree
    /\ tree0' = OutputTree
    /\ runs' = 1
    /\ sel_pc' = "start"
    /\ UNCHANGED <<keep_percentage, cpu_count, all_folders, fidx, all_frames,
                   folder_before, frames_to_keep_set, remove_tasks, next_task,
                   running, results, total_stats, failed_removals, fails,
                   ever_failed, last_return>>
    /\ UNCHANGED notSel

MainNext == ExNext \/ StartSelection \/ SelNext

----------------------------------------------------------------------------
(* The specifications: one script runs, the others stay idle. *)

ExtractInit ==
    ExInit /\ MainIdle
    /\ SelIdle /\ MgIdle /\ CpIdle /\ CtIdle /\ ShIdle /\ PkIdle
SpecExtract == ExtractInit /\ [][ExNext]_vars

SelectInit ==
    SelInit /\ MainIdle
    /\ ExIdle /\ MgIdle /\ CpIdle /\ CtIdle /\ ShIdle /\ PkIdle
SpecSelect == SelectInit /\ [][SelNext]_vars

WideSelectInit ==
    WideInit /\ MainIdle
    /\ ExIdle /\ MgIdle /\ CpIdle /\ CtIdle /\ ShIdle /\ PkIdle
SpecWideSelect == WideSelectInit /\ [][OneCallNext]_vars

MergeInit ==
    MgInit /\ MainIdle
    /\ ExIdle /\ SelIdle /\ CpIdle /\ CtIdle /\ ShIdle /\ PkIdle
SpecMerge == MergeInit /\ [][MgNext]_vars

CopyInit ==
    CpInit /\ MainIdle
    /\ ExIdle /\ SelIdle /\ MgIdle /\ CtIdle /\ ShIdle /\ PkIdle
SpecCopy == CopyInit /\ [][CpNext]_vars

CountInit ==
    CtInit /\ MainIdle
    /\ ExIdle /\ SelIdle /\ MgIdle /\ CpIdle /\ ShIdle /\ PkIdle
SpecCount == CountInit /\ [][CtNext]_vars

ShuffleInit ==
    ShInit /\ MainIdle
    /\ ExIdle /\ SelIdle /\ MgIdle /\ CpIdle /\ CtIdle /\ PkIdle
SpecShuffle == ShuffleInit /\ [][ShNext]_vars

PickInit ==
    PkInit /\ MainIdle
    /\ ExIdle /\ SelIdle /\ MgIdle /\ CpIdle /\ CtIdle /\ ShIdle
SpecPick == PickInit /\ [][PkNext]_vars

\* the script vid_folder_cut_frame.py is run
SpecMain == MainInit /\ [][MainNext]_vars

\* any one of the scripts runs, or one of their functions is called
Init ==
    \/ MainInit \/ ExtractInit \/ SelectInit \/ WideSelectInit
    \/ MergeInit \/ CopyInit
    \/ CountInit \/ ShuffleInit \/ PickInit
Next ==
    \/ ExNext \/ StartSelection \/ SelNext \/ MgNext \/ CpNext \/ CtNext
    \/ ShNext \/ PkNext
Spec == Init /\ [][Next]_vars

----------------------------------------------------------------------------
(* Claims about extract_frames (checked under SpecExtract). *)

CeilDiv(a, b) == (a + b - 1) \div b

\* the imwrite calls made for the video named v, in order
WritesFor(v) == SelectSeq(imwrite_log, LAMBDA w : w.video = v)

\* the videos the for loop has finished with
Finished == 1..Len(update_log)

\* C1: for every finished video whose decoder yielded L frames, the frames
\* written are exactly those of ordinal index 0, n, 2n, ... below L, and the
\* saved count reported for the video is ceil(L / n).
C1_EveryNthFrame ==
    \A i \in Finished :
        LET e == video_files[i]
            w == WritesFor(FileName(e))
        IN /\ update_log[i].video = FileName(e)
           /\ {w[j].index : j \in 1..Len(w)}
                 = {x \in 0..(e.dec.len - 1) : x % n = 0}
           /\ Len(w) = CeilDiv(e.dec.len, n)
           /\ update_log[i].extracted = CeilDiv(e.dec.len, n)

\* C1 witness: a finished video of 4 frames at interval 3 (frames 0 and 3).
C1_Witness ==
    /\ pc = "done" /\ n = 3
    /\ \E i \in Finished :
         /\ video_files[i].dec.len = 4
         /\ update_log[i].extracted = 2
         /\ Len(WritesFor(update_log[i].video)) = 2

\* the videos of a list that open
Openable(s) == SelectSeq(s, LAMBDA e : e.dec.opened)

\* the imwrite calls one video alone gives rise to
RECURSIVE VideoWrites(_, _, _)
VideoWrites(e, from, saved) ==
    IF from >= e.dec.len THEN <<>>
    ELSE IF from % n = 0
         THEN <<[video |-> FileName(e), stem |-> e.name.stem, index |-> from,
                 path |-> <<e.name.stem,
                            e.name.stem \o "_frame_" \o Format05d(saved)
                              \o ".jpg">>]>>
              \o VideoWrites(e, from + 1, saved + 1)
         ELSE VideoWrites(e, from + 1, saved)

\* the imwrite calls of a run over the list s
RECURSIVE RunWrites(_)
RunWrites(s) ==
    IF s = <<>> THEN <<>> ELSE VideoWrites(Head(s), 0, 0) \o RunWrites(Tail(s))

\* the frame files a sequence of imwrite calls leaves
RECURSIVE DiskAfter(_)
DiskAfter(w) ==
    IF w = <<>> THEN <<>>
    ELSE LET last == w[Len(w)] IN
         (last.path :> <<last.video, last.index>>)
            @@ DiskAfter(SubSeq(w, 1, Len(w) - 1))

\* C5: a video that fails to open writes no frame and does not end the
\* batch: at the end every video of the list has been gone through, and the
\* imwrite calls and the frame files are those of a run over the list with
\* the failing videos left out.
C5_FailedOpenSkipped ==
    /\ \A i \in Finished :
          ~video_files[i].dec.opened => WritesFor(update_log[i].video) = <<>>
    /\ pc = "done" =>
          /\ vidx = Len(video_files) + 1
          /\ imwrite_log = RunWrites(Openable(video_files))
          /\ disk = DiskAfter(RunWrites(Openable(video_files)))

\* C5 witness: a run that ended with a failing video listed before a video
\* whose frames were saved.
C5_Witness ==
    /\ pc = "done" /\ Len(video_files) = 2
    /\ ~video_files[1].dec.opened
    /\ video_files[2].dec.opened /\ video_files[2].dec.len >= 2
    /\ Len(WritesFor(FileName(video_files[2]))) >= 1

\* C6 as stated: update_video_stats is called for the videos that opened
\* and only for those, so that at the end processed_videos is the number of
\* opened videos and a failing video has no per-video entry.
C6_RecordedOnlyIfOpened ==
    pc = "done" =>
        /\ stats.processed_videos = Len(Openable(video_files))
        /\ Len(update_log) = Len(Openable(video_files))
        /\ \A i \in 1..Len(stats.video_stats) :
              \E j \in 1..Len(video_files) :
                 /\ FileName(video_files[j]) = stats.video_stats[i].video
                 /\ video_files[j].dec.opened

\* the decimal numerals of width 5, from 0
FiveDigits ==
    << "00000", "00001", "00002", "00003", "00004", "00005", "00006",
       "00007", "00008", "00009", "00010" >>

\* C9: the k-th frame saved for a video (k from 0) is named
\* <stem>_frame_<k as 5 digits>.jpg in the folder <stem>: the counters run
\* 0..S-1 with no gap and no repeat, in increasing order of the frames.
C9_SaveCounterNames ==
    \A i \in 1..Len(video_files) :
        LET e == video_files[i]
            w == WritesFor(FileName(e))
        IN \A k \in 1..Len(w) :
              /\ w[k].path = <<e.name.stem,
                               e.name.stem \o "_frame_" \o FiveDigits[k]
                                 \o ".jpg">>
              /\ k > 1 => w[k - 1].index < w[k].index

\* C9 witness: at interval 2 the second saved frame of a video, of ordinal
\* index 2, is named with counter 1.
C9_Witness ==
    /\ n = 2
    /\ \E k \in 1..Len(imwrite_log) :
         /\ imwrite_log[k].index = 2
         /\ imwrite_log[k].path = <<"b", "b_frame_00001.jpg">>

\* the videos of the list whose base name is stem st, by position
SameBase(st) == {i \in 1..Len(video_files) : video_files[i].name.stem = st}

\* the largest number of a non-empty set of naturals (0 for the empty set)
MaxOf(S) == IF S = {} THEN 0 ELSE CHOOSE x \in S : \A y \in S : y <= x

\* the frame files the subfolder st of the output folder holds
FilesIn(st) == {p \in DOMAIN disk : p[1] = st}

\* C12: videos with the same base name are not told apart. When the run
\* has ended, all videos of one base name st have written into the one
\* subfolder st under the names st_frame_<counter>.jpg; the file with
\* counter c holds the frame of the last video of that base name that
\* saved more than c frames (a later video replaces the earlier one's
\* frames with equal counters), so the subfolder holds as many files as the
\* largest extracted count among these videos, not their sum.
C12_SameBaseOverwrites ==
    pc = "done" =>
      \A st \in {video_files[i].name.stem : i \in 1..Len(video_files)} :
         LET vids == SameBase(st)
             cnt(i) == update_log[i].extracted
         IN /\ st \in dirs
            /\ FilesIn(st) =
                  { <<st, st \o "_frame_" \o Format05d(c) \o ".jpg">> :
                      c \in 0..(MaxOf({cnt(i) : i \in vids}) - 1) }
            /\ \A c \in 0..(MaxOf({cnt(i) : i \in vids}) - 1) :
                  LET last == MaxOf({i \in vids : cnt(i) > c})
                  IN disk[<<st, st \o "_frame_" \o Format05d(c) \o ".jpg">>][1]
                        = FileName(video_files[last])

\* C12 witness: a.mp4 and a.AVI both saved frames; the run ended with
\* fewer frame files in subfolder a than the statistics count as extracted,
\* and file a_frame_00000.jpg holds the frame of the later video.
C12_Witness ==
    /\ pc = "done" /\ Len(video_files) = 2
    /\ video_files[1].name.stem = "a" /\ video_files[2].name.stem = "a"
    /\ update_log[1].extracted >= 2 /\ update_log[2].extracted >= 1
    /\ Cardinality(FilesIn("a")) < stats.extracted_frames
    /\ Cardinality(FilesIn("a")) = update_log[1].extracted
    /\ disk[<<"a", "a_frame_00000.jpg">>][1] = FileName(video_files[2])
    /\ disk[<<"a", "a_frame_00001.jpg">>][1] = FileName(video_files[1])

\* the keys of the video_stats dictionary
StatKeys == {stats.video_stats[i].video : i \in 1..Len(stats.video_stats)}

\* the entry the dictionary holds under key v: the last one assigned
StatEntry(v) ==
    stats.video_stats[MaxOf({i \in 1..Len(stats.video_stats) :
                               stats.video_stats[i].video = v})]

\* the sum of the 'frames' (what = 1) or 'extracted' (what = 2) fields of
\* the entries under the keys K
RECURSIVE SumEntries(_, _)
SumEntries(K, what) ==
    IF K = {} THEN 0
    ELSE LET v == CHOOSE x \in K : TRUE
         IN (IF what = 1 THEN StatEntry(v).frames ELSE StatEntry(v).extracted)
            + SumEntries(K \ {v}, what)

\* in every state the aggregates are the sums of the per-video entries
C13_StatsAddUp ==
    /\ stats.total_frames = SumEntries(StatKeys, 1)
    /\ stats.extracted_frames = SumEntries(StatKeys, 2)
    /\ stats.processed_videos = Cardinality(StatKeys)
    /\ stats.processed_videos = Len(update_log)
    /\ stats.processed_videos <= stats.total_videos
    /\ pc # "start" => stats.total_videos = Len(video_files)

\* in every step total_videos changes only at the directory scan and
\* processed_videos stays or grows by one, the latter exactly when a video
\* is recorded
C13_StatsStep ==
    /\ stats'.total_videos # stats.total_videos => pc = "start"
    /\ pc = "start" => pc' # "start"
    /\ stats'.processed_videos \in
          {stats.processed_videos, stats.processed_videos + 1}
    /\ (stats'.processed_videos = stats.processed_videos + 1)
          <=> (Len(update_log') = Len(update_log) + 1)

\* C13: throughout a run of extract_frames the statistics stay
\* consistent. total_videos is written once, at the directory scan;
\* processed_videos never decreases and grows by one per recorded video;
\* after every update total_frames and extracted_frames are the sums of the
\* per-video 'frames' and 'extracted' entries, and processed_videos is the
\* number of per-video entries and at most total_videos.
C13_StatsConsistent == [](C13_StatsAddUp) /\ [][C13_StatsStep]_vars

\* C13 witness: two videos that each saved frames have been recorded.
C13_Witness ==
    /\ stats.processed_videos = 2 /\ stats.total_videos = 2
    /\ Cardinality(StatKeys) = 2
    /\ \A v \in StatKeys : StatEntry(v).extracted >= 1
    /\ \E v \in StatKeys : StatEntry(v).frames # StatEntry(v).extracted
    /\ stats.extracted_frames >= 3

----------------------------------------------------------------------------
(* Claims about process_folder and random_select_frames (checked under     *)
(* SpecSelect, C11 under SpecWideSelect).                                  *)

\* the .jpg files among a set of files, whatever the case of the extension
FramesOf(files) == {f \in files : Lower(f.ext) = ".jpg"}

\* floor(F * k) for the fraction k
FloorTimes(F, k) == (F * k.num) \div k.den

\* k in [0, 1]
InUnit(k) == 0 <= k.num /\ k.num <= k.den

\* floor(... floor(floor(F * k) * k) ...), j times
RECURSIVE FloorIter(_, _, _)
FloorIter(F, k, j) == IF j = 0 THEN F ELSE FloorIter(FloorTimes(F, k), k, j - 1)

\* C2: with k in [0, 1] and no failed deletion, a process_folder call on a
\* folder of F .jpg files keeps a sample of exactly floor(F * k) of them,
\* deletes every other .jpg file and nothing else, and returns
\* (F, floor(F * k), F - floor(F * k)); k = 0 leaves no frame, k = 1 leaves
\* them all, and a folder without frames returns (0, 0, 0) untouched.
C2_KeepsFloor ==
    LET r == last_return
        k == keep_percentage
        frames == FramesOf(r.before)
        F == Cardinality(frames)
    IN (r.folder # 0 /\ InUnit(k) /\ r.failed = {}) =>
          /\ r.total = F
          /\ r.kept = FloorTimes(F, k)
          /\ r.removed = F - FloorTimes(F, k)
          /\ r.keepset \subseteq frames
          /\ Cardinality(r.keepset) = FloorTimes(F, k)
          /\ r.left = r.before \ (frames \ r.keepset)
          /\ k.num = 0 => FramesOf(r.left) = {}
          /\ k.num = k.den => r.left = r.before
          /\ F = 0 => (r.left = r.before /\ r.total = 0 /\ r.kept = 0
                        /\ r.removed = 0)

\* C2 witness: a folder of 2 frames at k = 0.5 returned (2, 1, 1).
C2_Witness ==
    /\ keep_percentage = [num |-> 1, den |-> 2]
    /\ last_return.total = 2 /\ last_return.kept = 1
    /\ last_return.removed = 1 /\ last_return.failed = {}
    /\ Cardinality(FramesOf(last_return.left)) = 1

\* C7: with k in [0, 1], a failed deletion is counted as not removed and
\* stops nothing: the call returns total - kept - (failed deletions) as its
\* removed count, every other non-selected frame of the folder is deleted,
\* the run never raises, and when it ends every folder in which no deletion
\* failed has been subsampled.
C7_FailureCounted ==
    LET r == last_return
        k == keep_percentage
    IN InUnit(k) =>
          /\ sel_pc # "raised"
          /\ r.folder # 0 =>
                /\ r.removed = r.total - r.kept - Cardinality(r.failed)
                /\ r.removed = Cardinality(FramesOf(r.before) \ FramesOf(r.left))
                /\ FramesOf(r.left) = r.keepset \cup r.failed
          /\ sel_pc = "done" =>
                /\ fidx = Len(all_folders) + 1
                /\ \A f \in Folders \ ever_failed :
                      Cardinality(FramesOf(tree[f]))
                        = FloorIter(Cardinality(FramesOf(tree0[f])), k, runs)

\* a step of random_select_frames changes the files of no folder but the
\* one process_folder is working on, and there it only deletes .jpg entries
C11_OnlyOwnFolderChanges ==
    \A f \in DOMAIN tree :
        tree'[f] # tree[f] =>
            /\ sel_pc = "pool" /\ f = all_folders[fidx]
            /\ tree'[f] \subseteq tree[f]
            /\ tree[f] \ tree'[f] \subseteq FramesOf(folder_before)

\* the triple a process_folder call returned is a function of the .jpg
\* entries its own folder held; in the first run these are the entries the
\* folder held before any folder was processed
C11_ResultFromOwnFiles ==
    LET r == last_return
        F == Cardinality(FramesOf(r.before))
    IN r.folder # 0 =>
          /\ r.total = F
          /\ r.kept = (IF F = 0 THEN 0 ELSE FloorTimes(F, keep_percentage))
          /\ r.removed = Cardinality(FramesOf(r.before) \ FramesOf(r.left))
          /\ r.run = 1 => r.before = tree0[r.folder]
          /\ \A f \in DOMAIN tree :
                (f # r.folder /\ runs = 1
                    /\ \A i \in 1..Len(all_folders) :
                          all_folders[i] = f => i > fidx)
                  => tree[f] = tree0[f]

\* C11: subsampling one folder never affects another. Every step of
\* random_select_frames changes only the folder process_folder is working
\* on, and only by deleting .jpg entries of that folder; and the (total,
\* kept, removed) a folder returns is determined by that folder's own .jpg
\* entries, which in the first run are still the ones it held before any
\* other folder was processed, in whichever order the walk listed the
\* folders. (Checked under SpecWideSelect, where folders have siblings.)
C11_FoldersIndependent ==
    [](C11_ResultFromOwnFiles) /\ [][C11_OnlyOwnFolderChanges]_vars

\* C11 witness: the walk listed sub-folder 3 before its sibling 2; the
\* parent and folder 3 each had a frame deleted, and folder 2, processed
\* last, returned the counts of its own two frames, which it still held
\* untouched when it was listed.
C11_Witness ==
    /\ runs = 1 /\ all_folders = <<1, 3, 2>>
    /\ last_return.folder = 2 /\ last_return.total = 2
    /\ last_return.before = tree0[2]
    /\ last_return.removed = 1
    /\ FramesOf(tree[1]) # FramesOf(tree0[1])
    /\ FramesOf(tree[3]) # FramesOf(tree0[3])
    /\ FramesOf(tree0[3]) # FramesOf(tree0[2])

\* C15: process_folder never deletes a frame it selected to keep nor an
\* entry that is no .jpg file. While the pool works, the selected frames
\* and the other entries stay in the folder; every listed frame has exactly
\* one task, which asks for removal exactly when the frame is not selected,
\* and no task is held by two workers or run twice. When the call returns,
\* whatever the interleaving and the failures, the .jpg files left are the
\* selected ones plus those whose deletion failed, at least floor(F * k).
C15_KeptFramesSurvive ==
    LET folder == all_folders[fidx]
        r == last_return
    IN /\ sel_pc = "pool" =>
            /\ frames_to_keep_set \subseteq tree[folder]
            /\ folder_before \ FramesOf(folder_before) \subseteq tree[folder]
            /\ Len(remove_tasks) = Cardinality(FramesOf(folder_before))
            /\ \A f \in FramesOf(folder_before) :
                  \E t \in 1..Len(remove_tasks) :
                     /\ remove_tasks[t].frame = f
                     /\ remove_tasks[t].should_remove
                           = (f \notin frames_to_keep_set)
                     /\ \A u \in 1..Len(remove_tasks) :
                           remove_tasks[u].frame = f => u = t
            /\ Cardinality(running) <= Cardinality(Workers)
            /\ \A t \in running :
                  t < next_task /\ results[t] = "none"
            /\ \A t \in 1..Len(remove_tasks) :
                  (remove_tasks[t].should_remove /\ results[t] = "none")
                     => remove_tasks[t].frame \in tree[folder]
       /\ r.folder # 0 =>
            /\ FramesOf(r.left) = r.keepset \cup r.failed
            /\ r.left \ FramesOf(r.left) = r.before \ FramesOf(r.before)
            /\ r.keepset \subseteq FramesOf(r.before)
            /\ r.failed \subseteq FramesOf(r.before) \ r.keepset
            /\ Cardinality(r.keepset) = r.kept
            /\ Cardinality(FramesOf(r.left))
                  >= (IF r.total = 0 THEN 0
                      ELSE FloorTimes(r.total, keep_percentage))

\* C15 witness: with two workers, a folder of 2 frames at k = 0.5 returned
\* after the deletion of its non-selected frame failed: the selected frame
\* and the frame that could not be deleted are both left.
C15_Witness ==
    /\ Cardinality(Workers) = 2
    /\ keep_percentage = [num |-> 1, den |-> 2]
    /\ last_return.total = 2 /\ Cardinality(last_return.keepset) = 1
    /\ Cardinality(last_return.failed) = 1
    /\ last_return.removed = 0
    /\ Cardinality(FramesOf(last_return.left)) = 2

\* no step leaves a run whose sampling raised, and a folder of F >= 1
\* frames with floor(F * k) > F is left only by the sampling raising
C16_RaiseAborts ==
    /\ sel_pc # "raised"
    /\ (/\ sel_pc = "for" /\ fidx <= Len(all_folders)
        /\ LET F == Cardinality(FramesOf(tree[all_folders[fidx]]))
           IN F >= 1 /\ FloorTimes(F, keep_percentage) > F)
         => sel_pc' = "raised" /\ tree' = tree /\ fidx' = fidx
                /\ last_return' = last_return /\ total_stats' = total_stats

\* with k > 1 nothing is ever deleted: no task asks for a removal, every
\* call that returned had floor(F * k) = F (or no frame) and removed
\* nothing, and a raise leaves the folders up to the failing one untouched
\* and the later ones unprocessed
C16_NothingDeleted ==
    LET r == last_return
        k == keep_percentage
    IN k.num > k.den =>
          /\ tree = tree0
          /\ \A t \in 1..Len(remove_tasks) : ~remove_tasks[t].should_remove
          /\ r.folder # 0 =>
                /\ r.removed = 0 /\ r.left = r.before
                /\ r.total = 0 \/ FloorTimes(r.total, k) = r.total
          /\ sel_pc = "raised" =>
                /\ fidx <= Len(all_folders)
                /\ LET F == Cardinality(FramesOf(tree[all_folders[fidx]]))
                   IN F >= 1 /\ FloorTimes(F, k) > F
                /\ r.folder # all_folders[fidx] \/ r.run # runs

\* C16: a keep fraction above 1 goes unvalidated into process_folder and
\* never causes a deletion. For a folder of F >= 1 frames either
\* floor(F * k) = F and the call removes nothing, or floor(F * k) > F and
\* the sampling raises before any deletion task exists: the folder is
\* unchanged and the run stops there, the later folders unprocessed.
C16_OversizedFractionDeletesNothing ==
    [](C16_NothingDeleted) /\ [][C16_RaiseAborts]_vars

\* C16 witness: at k = 1.5 folder 1, of 1 frame, returned (1, 1, 0), then
\* the sampling raised in folder 2, of 2 frames; nothing was deleted.
C16_Witness ==
    /\ keep_percentage = [num |-> 3, den |-> 2]
    /\ sel_pc = "raised" /\ all_folders[fidx] = 2
    /\ Cardinality(FramesOf(tree[2])) = 2
    /\ last_return.folder = 1 /\ last_return.total = 1
    /\ last_return.kept = 1 /\ last_return.removed = 0
    /\ tree = tree0

\* C7 witness: the first run ended; a deletion failed in folder 1 while the
\* other frame of folder 1 was deleted, and folder 2, processed after it,
\* had a frame deleted.
C7_Witness ==
    /\ sel_pc = "done" /\ runs = 1 /\ ever_failed = {1}
    /\ Cardinality(FramesOf(tree0[1])) = 2
    /\ Cardinality(FramesOf(tree[1])) = 1
    /\ last_return.folder = 2 /\ last_return.removed >= 1

\* C8: with k in [0, 1] and no failed deletion in the folder, the first
\* process_folder call leaves floor(F * k) .jpg files in it, and the second
\* call returns that number as its total and floor(floor(F * k) * k) as
\* its kept count.
C8_SecondRunCount ==
    LET r == last_return
        k == keep_percentage
        F == Cardinality(FramesOf(tree0[r.folder]))
    IN (r.folder # 0 /\ InUnit(k) /\ r.folder \notin ever_failed) =>
          /\ r.run = 1 => Cardinality(FramesOf(r.left)) = FloorTimes(F, k)
          /\ r.run = 2 =>
                /\ r.total = FloorTimes(F, k)
                /\ r.kept = FloorTimes(FloorTimes(F, k), k)

\* C8 witness: a folder of 2 frames at k = 0.8: the second call found 1
\* frame and kept none.
C8_Witness ==
    /\ keep_percentage = [num |-> 4, den |-> 5]
    /\ last_return.run = 2 /\ last_return.folder \notin ever_failed
    /\ last_return.folder # 0
    /\ Cardinality(FramesOf(tree0[last_return.folder])) = 2
    /\ last_return.total = 1 /\ last_return.kept = 0
    /\ last_return.removed = 1

----------------------------------------------------------------------------
(* Claims about the sequential combine_folders (checked under SpecMerge). *)

\* the .jpg source files: (subfolder, name)
MergeSources ==
    UNION { { <<sf, nm>> : nm \in {x \in Range(root_folder[sf]) :
                                     Lower(x.ext) = ".jpg"} } :
              sf \in 1..Len(root_folder) }

\* <stem>_<m><ext>
Suffixed(nm, m) == nm.stem \o "_" \o ToString(m) \o nm.ext

\* C3: every copy goes to a name that did not exist when it was made: the
\* file's own name if free, else <stem>_<m><ext> for the smallest m >= 1
\* that is free; no source is copied twice; no file the output folder held
\* is overwritten; and at the end every .jpg source file has been copied
\* and the output folder has gained one file per source file, each with
\* its source's content.
C3_NoOverwrite ==
    /\ \A i \in 1..Len(copy_log) :
          LET c == copy_log[i] IN
            /\ c.dest \notin c.before
            /\ Path(c.image) \notin c.before => c.dest = Path(c.image)
            /\ Path(c.image) \in c.before =>
                  \E m \in 1..(Cardinality(c.before) + 1) :
                     /\ c.dest = Suffixed(c.image, m)
                     /\ \A j \in 1..(m - 1) : Suffixed(c.image, j) \in c.before
            /\ \A j \in 1..Len(copy_log) :
                  (j # i) => (<<copy_log[j].sub, copy_log[j].image>>
                               # <<c.sub, c.image>>)
            /\ c.dest \in DOMAIN output_folder
            /\ output_folder[c.dest] = <<"copy of", c.sub, Path(c.image)>>
    /\ \A p \in DOMAIN output0 :
          p \in DOMAIN output_folder /\ output_folder[p] = output0[p]
    /\ mg_pc = "done" =>
          /\ {<<copy_log[i].sub, copy_log[i].image>> : i \in 1..Len(copy_log)}
                = MergeSources
          /\ Cardinality(DOMAIN output_folder)
                = Cardinality(DOMAIN output0) + Cardinality(MergeSources)

\* C3 witness: two subfolders each holding a.jpg, merged into an empty
\* output folder, give a.jpg (from the first) and a_1.jpg (from the second).
C3_Witness ==
    /\ mg_pc = "done" /\ output0 = <<>>
    /\ root_folder = << <<Name("a", ".jpg")>>, <<Name("a", ".jpg")>> >>
    /\ DOMAIN output_folder = {"a.jpg", "a_1.jpg"}
    /\ output_folder["a.jpg"] = <<"copy of", 1, "a.jpg">>
    /\ output_folder["a_1.jpg"] = <<"copy of", 2, "a.jpg">>

----------------------------------------------------------------------------
(* Claims about the parallel combine_folders (checked under SpecCopy). *)

\* the files the copy tasks were to add, whole
CopiedWhole ==
    { SourceFile(copy_tasks[t].sub, copy_tasks[t].image) :
        t \in 1..Len(copy_tasks) }

\* C10: with a single worker process no copy_file call opens a name that
\* exists, no file the output folder held is replaced, and at the end the
\* output folder has gained one file per copy task, each the whole of one
\* source. (That two workers can lose a file is C10_Witness.)
C10_SingleWorkerSafe ==
    Cardinality(CpWorkers) = 1 =>
        /\ \A e \in cp_log : ~e.existed
        /\ \A p \in DOMAIN cp_output0 :
              p \in DOMAIN cp_output /\ cp_output[p] = cp_output0[p]
        /\ cp_pc = "done" =>
              /\ Cardinality(DOMAIN cp_output)
                   = Cardinality(DOMAIN cp_output0) + Len(copy_tasks)
              /\ \A p \in DOMAIN cp_output \ DOMAIN cp_output0 :
                    cp_output[p] \in CopiedWhole

\* C10 witness: with two workers, two tasks whose sources are both named
\* a.jpg both saw a.jpg free and both copied to it: the second one opened
\* the file the first had made, and the run ended with fewer files in the
\* output folder than there were sources.
C10_Witness ==
    /\ Cardinality(CpWorkers) = 2 /\ cp_pc = "done"
    /\ "a.jpg" \notin DOMAIN cp_output0
    /\ \E e1, e2 \in cp_log :
         /\ e1.task # e2.task
         /\ e1.dest = "a.jpg" /\ ~e1.existed
         /\ e2.dest = "a.jpg" /\ e2.existed
         /\ copy_tasks[e1.task].image = copy_tasks[e2.task].image
    /\ Cardinality(DOMAIN cp_output)
         < Cardinality(DOMAIN cp_output0) + Len(copy_tasks)

----------------------------------------------------------------------------
(* Claims about count_class_ids (checked under SpecCount). *)

\* the first whitespace-delimited token of a line ("" for a blank line):
\* leading whitespace is dropped, then characters are taken up to the next
\* whitespace
RECURSIVE TakeToken(_)
TakeToken(line) ==
    IF line = <<>> \/ Head(line) \in Whitespace THEN ""
    ELSE Head(line) \o TakeToken(Tail(line))

RECURSIVE FirstToken(_)
FirstToken(line) ==
    IF line = <<>> THEN ""
    ELSE IF Head(line) \in Whitespace THEN FirstToken(Tail(line))
         ELSE TakeToken(line)

\* how many lines of the bag B have c as their first token
RECURSIVE LinesOfClass(_, _)
LinesOfClass(B, c) ==
    IF BagToSet(B) = {} THEN 0
    ELSE LET l == CHOOSE x \in BagToSet(B) : TRUE
             rest == [x \in BagToSet(B) \ {l} |-> B[x]]
         IN (IF FirstToken(l) = c THEN CopiesIn(l, B) ELSE 0)
            + LinesOfClass(rest, c)

ClassIds == {"1", "12", "x", "2", ""}

CountOf(c) == IF c \in DOMAIN class_counts THEN class_counts[c] ELSE 0

\* C4 as stated: once every file is gone through, the count of a class is
\* the number of non-blank lines with that first token in the files that
\* were read without error.
C4_CountsOnlyCleanFiles ==
    (ct_pc \in {"printed", "raised"}) =>
        \A c \in ClassIds \ {""} : CountOf(c) = LinesOfClass(ok_lines, c)

\* C4 amended: at every moment the count of a class is the number of
\* non-blank lines read so far with that first token, the lines read from a
\* file before its reading raised included; so each line read adds one to
\* the count of its own class only, and a blank line adds nothing.
C4_CountsEveryLineRead ==
    /\ \A c \in ClassIds \ {""} :
          CountOf(c) = LinesOfClass(ok_lines (+) failed_lines (+) cur_lines, c)
    /\ DOMAIN class_counts \subseteq ClassIds \ {""}

\* C4 witness: the run ended having counted class "12" twice and class "1"
\* once, over two files read to the end that also held a blank line.
C4_Witness ==
    /\ ct_pc = "printed" /\ failed_lines = EmptyBag
    /\ CountOf("12") = 2 /\ CountOf("1") = 1
    /\ BagIn(<<" ">>, ok_lines)
    /\ BagCardinality(ok_lines) = 4

----------------------------------------------------------------------------
(* Claims about shuffle_and_split_pairs (checked under SpecShuffle). *)

\* the batches put end to end
RECURSIVE Flatten(_)
Flatten(bs) == IF bs = <<>> THEN <<>> ELSE Head(bs) \o Flatten(Tail(bs))

\* the lists s and t hold the same pairs, each as many times
SamePairs(s, t) ==
    /\ Range(s) = Range(t)
    /\ \A v \in Range(t) :
          Cardinality({i \in 1..Len(s) : s[i] = v})
            = Cardinality({i \in 1..Len(t) : t[i] = v})

\* C14: shuffle_and_split_pairs partitions its input into batches of
\* BATCH_SIZE. The shuffled list holds the pairs of the input, each as
\* many times as the input (once, when the pairs are distinct);
\* the batches made so far are consecutive slices of it; and the P pairs are
\* returned as exactly ceil(P / 500) batches that, end to end, are the
\* shuffled list (so every pair is in exactly one batch), every batch but
\* the last of 500 pairs, the last of 1 to 500, none empty, and none at all
\* for P = 0.
C14_BatchesPartition ==
    LET P == Len(pairs0)
        flat == Flatten(batches)
    IN /\ sh_pc # "start" =>
            /\ Len(pairs) = P /\ SamePairs(pairs, pairs0)
            /\ total_pairs = P
            /\ flat = SubSeq(pairs, 1, Len(flat))
       /\ sh_pc = "done" =>
            /\ Len(batches) = CeilDiv(P, BATCH_SIZE)
            /\ flat = pairs
            /\ Len(flat) = P /\ SamePairs(flat, pairs0)
            /\ \A b \in 1..Len(batches) :
                  /\ Len(batches[b]) >= 1 /\ Len(batches[b]) <= BATCH_SIZE
                  /\ b < Len(batches) => Len(batches[b]) = BATCH_SIZE
            /\ P = 0 => batches = <<>>

\* C14 witness: 1001 pairs were returned as two batches of 500 and a last
\* batch of one pair, which is the pair the list was called with in front.
C14_Witness ==
    /\ sh_pc = "done" /\ Len(pairs0) = 1001 /\ pairs # pairs0
    /\ Len(batches) = 3
    /\ Len(batches[1]) = 500 /\ Len(batches[2]) = 500 /\ Len(batches[3]) = 1
    /\ batches[3] = <<pairs0[1]>> /\ pairs0[1] # pairs0[2]

----------------------------------------------------------------------------
(* Claims about random_pick_images_and_labels (checked under SpecPick). *)

\* the files the loop has been through that have a label, by position
WithLabel(upto) ==
    {i \in 1..upto : LabelOf(selected_files[i]) \in labels_folder}

\* after the selection: floor(T * r) distinct .jpg images are selected;
\* each file the loop has been through was copied exactly when its label
\* exists; copied_count counts these; an entry of output/images is the one
\* the folder held before or the copy of a selected image that has a label,
\* whose label copy is then in output/labels; and output/labels gains
\* nothing but the labels of copied images
C17_OnlyLabelledCopied ==
    LET T == Cardinality(FramesOf(images_folder))
        done == Len(pk_log)
    IN pk_pc # "start" =>
        /\ Len(selected_files) = FloorTimes(T, ratio)
        /\ \A i, j \in 1..Len(selected_files) :
              i # j => selected_files[i] # selected_files[j]
        /\ Range(selected_files) \subseteq FramesOf(images_folder)
        /\ done = pk_idx - 1
        /\ \A i \in 1..done :
              /\ pk_log[i].file = selected_files[i]
              /\ pk_log[i].copied = (i \in WithLabel(done))
        /\ copied_count = Cardinality(WithLabel(done))
        /\ copied_count <= FloorTimes(T, ratio)
        /\ pk_pc = "done" =>
              /\ done = Len(selected_files)
              /\ copied_count = Cardinality(WithLabel(Len(selected_files)))
        /\ \A p \in DOMAIN pk_images0 : p \in DOMAIN output_images_folder
        /\ \A p \in DOMAIN output_images_folder :
              IF \E i \in WithLabel(done) : Path(selected_files[i]) = p
              THEN /\ output_images_folder[p] = <<"copy of", p>>
                   /\ \E i \in WithLabel(done) :
                        /\ Path(selected_files[i]) = p
                        /\ Path(LabelOf(selected_files[i]))
                              \in DOMAIN output_labels_folder
                        /\ output_labels_folder[Path(LabelOf(selected_files[i]))]
                              = <<"copy of", Path(LabelOf(selected_files[i]))>>
              ELSE /\ p \in DOMAIN pk_images0
                   /\ output_images_folder[p] = pk_images0[p]
        /\ \A q \in DOMAIN output_labels_folder :
              \/ q \in DOMAIN pk_labels0
                   /\ output_labels_folder[q] = pk_labels0[q]
              \/ \E i \in WithLabel(done) :
                    Path(LabelOf(selected_files[i])) = q

\* no step changes the images folder or the labels folder
C17_SourcesUntouched ==
    images_folder' = images_folder /\ labels_folder' = labels_folder

\* C17: random_pick_images_and_labels keeps image/label pairs intact. For
\* T .jpg images and a ratio r in [0, 1] it selects exactly floor(T * r)
\* distinct images; it copies an image only together with the label of the
\* same base name and passes over a selected image without a label, putting
\* no other image in its place; the returned count is the number of
\* selected images that have a label, at most floor(T * r); every image
\* added to output/images has its label in output/labels; and the source
\* folders are left as they were.
C17_PairsKeptIntact ==
    [](C17_OnlyLabelledCopied) /\ [][C17_SourcesUntouched]_vars

\* C17 witness: of 3 images at ratio 0.8 two were selected, 1.jpg without
\* a label and 2.jpg with one; the call returned 1, 2.jpg and 2.txt are in
\* the output, and the 1.jpg output/images held before is still the old one.
C17_Witness ==
    /\ pk_pc = "done" /\ ratio = [num |-> 4, den |-> 5]
    /\ Cardinality(FramesOf(images_folder)) = 3
    /\ Range(selected_files) = {Name("1", ".jpg"), Name("2", ".jpg")}
    /\ labels_folder = {Name("2", ".txt")}
    /\ copied_count = 1
    /\ DOMAIN output_images_folder = {"1.jpg", "2.jpg"}
    /\ output_images_folder["1.jpg"] = <<"old", "1.jpg">>
    /\ DOMAIN output_labels_folder = {"2.txt"}

====
